---- MODULE Spec2Model ----
(***************************************************************************)
(* Verification model of the business-directory scraping pipeline:        *)
(* directory traversal, contact-page discovery, multi-page email          *)
(* extraction, email cleaning/validation, country resolution and the      *)
(* orchestration of one sector run.                                        *)
(*                                                                         *)
(* Text is modelled as a sequence of one-character strings so that the     *)
(* string operations of the source (replace, strip, lower, regular         *)
(* expression matching, substring tests, sorting) are computed and not     *)
(* assumed.                                                                *)
(***************************************************************************)
EXTENDS Integers, Sequences, FiniteSets, TLC

(***************************************************************************)
(* Character classes and elementary string operations                     *)
(***************************************************************************)
LowerSeq == <<"a","b","c","d","e","f","g","h","i","j","k","l","m",
              "n","o","p","q","r","s","t","u","v","w","x","y","z">>
UpperSeq == <<"A","B","C","D","E","F","G","H","I","J","K","L","M",
              "N","O","P","Q","R","S","T","U","V","W","X","Y","Z">>
DigitSeq == <<"0","1","2","3","4","5","6","7","8","9">>

Range(f) == {f[i] : i \in DOMAIN f}

LowerCh == Range(LowerSeq)
UpperCh == Range(UpperSeq)
DigitCh == Range(DigitSeq)
AlnumLowerCh == LowerCh \cup DigitCh
LetterCh == LowerCh \cup UpperCh

\* str.lower() on one character
LowerChar(c) ==
    IF c \in UpperCh THEN LowerSeq[CHOOSE i \in DOMAIN UpperSeq : UpperSeq[i] = c] ELSE c

\* str.lower()
Lower(s) == [i \in DOMAIN s |-> LowerChar(s[i])]

\* s[from..] (1-based, empty when from > Len(s))
Drop(s, n) == SubSeq(s, n + 1, Len(s))

\* s.startswith(p)
StartsWith(s, p) == Len(p) <= Len(s) /\ SubSeq(s, 1, Len(p)) = p

\* p in s  (substring test)
Contains(s, p) == \E i \in 0..(Len(s) - Len(p)) : SubSeq(s, i + 1, i + Len(p)) = p

\* s.replace(pat, rep): left to right, non-overlapping
RECURSIVE Replace(_, _, _)
Replace(s, pat, rep) ==
    IF s = <<>> THEN <<>>
    ELSE IF StartsWith(s, pat) THEN rep \o Replace(Drop(s, Len(pat)), pat, rep)
    ELSE <<Head(s)>> \o Replace(Tail(s), pat, rep)

RECURSIVE LStrip(_, _)
LStrip(s, chars) ==
    IF s # <<>> /\ Head(s) \in chars THEN LStrip(Tail(s), chars) ELSE s

RECURSIVE RStrip(_, _)
RStrip(s, chars) ==
    IF s # <<>> /\ s[Len(s)] \in chars THEN RStrip(SubSeq(s, 1, Len(s) - 1), chars) ELSE s

\* s.strip(chars)
Strip(s, chars) == RStrip(LStrip(s, chars), chars)

AllIn(s, class) == \A i \in DOMAIN s : s[i] \in class

\* position of the first "@" of s, 0 when there is none
FirstAt(s) ==
    IF \E i \in DOMAIN s : s[i] = "@"
    THEN CHOOSE i \in DOMAIN s : s[i] = "@" /\ \A j \in 1..(i - 1) : s[j] # "@"
    ELSE 0

(***************************************************************************)
(* EmailValidator (contact_details_validation.py)                          *)
(***************************************************************************)
personal_domains == {
    <<"g", "m", "a", "i", "l", ".", "c", "o", "m">>,
    <<"y", "a", "h", "o", "o", ".", "c", "o", "m">>,
    <<"h", "o", "t", "m", "a", "i", "l", ".", "c", "o", "m">>,
    <<"o", "u", "t", "l", "o", "o", "k", ".", "c", "o", "m">>,
    <<"e", "m", "a", "i", "l", ".", "c", "o", "m">>,
    <<"a", "o", "l", ".", "c", "o", "m">>,
    <<"i", "c", "l", "o", "u", "d", ".", "c", "o", "m">>,
    <<"m", "a", "i", "l", ".", "c", "o", "m">>,
    <<"p", "r", "o", "t", "o", "n", "m", "a", "i", "l", ".", "c", "o", "m">>,
    <<"d", "o", "m", "a", "i", "n", ".", "c", "o", "m">>,
    <<"m", "y", "s", "i", "t", "e", ".", "c", "o", "m">>,
    <<"b", "u", "s", "i", "n", "e", "s", "s", ".", "c", "o", "m">>,
    <<"u", "s", "e", "r", "c", "e", "n", "t", "r", "i", "c", "s", ".", "c", "o", "m">>,
    <<"s", "n", "a", "z", "z", "y", "m", "a", "p", "s", ".", "c", "o", "m">> }

\* character classes of the pattern of is_valid_email
ValidLocalCh == LetterCh \cup DigitCh \cup {".", "_", "%", "+", "-"}
ValidDomainCh == LetterCh \cup DigitCh \cup {".", "-"}

\* re.match(r'^[a-zA-Z0-9._%+-]+@[a-zA-Z0-9.-]+\.[a-zA-Z]{2,3}$', email)
is_valid_email(email) ==
    \E k \in DOMAIN email :
        /\ email[k] = "@"
        /\ k > 1
        /\ AllIn(SubSeq(email, 1, k - 1), ValidLocalCh)
        /\ \E t \in 2..3 :
              LET n == Len(email)
                  dot == n - t
              IN  /\ dot > k + 1
                  /\ email[dot] = "."
                  /\ AllIn(SubSeq(email, k + 1, dot - 1), ValidDomainCh)
                  /\ AllIn(SubSeq(email, dot + 1, n), LetterCh)

\* email.split("@")[1].lower(): the text between the first and the second "@"
DomainOf(email) ==
    LET rest == Drop(email, FirstAt(email))
        stop == FirstAt(rest)
    IN  Lower(IF stop = 0 THEN rest ELSE SubSeq(rest, 1, stop - 1))

\* is_business_email testing the whole address against the personal set
is_business_email_whole(email, custom_business_domains) ==
    IF FirstAt(email) = 0 THEN FALSE
    ELSE IF DomainOf(email) \in custom_business_domains THEN TRUE
    ELSE email \notin personal_domains

is_business_email(email, custom_business_domains) ==
    IF FirstAt(email) = 0 THEN FALSE
    ELSE IF DomainOf(email) \in custom_business_domains THEN TRUE
    ELSE DomainOf(email) \notin personal_domains

(***************************************************************************)
(* ContactExtractor._clean_extracted_email (contact_extraction.py)         *)
(***************************************************************************)
HtmlAt == <<"&", "#", "6", "4", ";">>
HtmlAmp == <<"&", "a", "m", "p", ";">>

strip_chars == {"\n", "\r", "\t", "<", ">", "(", ")", "[", "]", "{", "}",
                "\"", ",", ";", ":", "!", "?"}

spam_patterns == {
    <<"n", "o", "r", "e", "p", "l", "y">>,
    <<"n", "o", "-", "r", "e", "p", "l", "y">>,
    <<"d", "o", "n", "o", "t", "r", "e", "p", "l", "y">>,
    <<"e", "x", "a", "m", "p", "l", "e">>,
    <<"e", "x", "a", "m", "p", "l", "e", ".", "c", "o", "m">>,
    <<"t", "e", "s", "t", "@">>,
    <<"s", "u", "b", "s", "c", "r", "i", "b", "e">>,
    <<"u", "n", "s", "u", "b", "c", "r", "i", "b", "e">>,
    <<"u", "n", "s", "u", "b", "s", "c", "r", "i", "b", "e">>,
    <<"c", "o", "o", "k", "i", "e", "b", "o", "t">>,
    <<"a", "d", "m", "i", "n", "@", "l", "o", "c", "a", "l", "h", "o", "s", "t">>,
    <<"i", "n", "f", "o", "@", "e", "x", "a", "m", "p", "l", "e">>,
    <<"c", "o", "n", "t", "a", "c", "t", "@", "e", "x", "a", "m", "p", "l", "e">>,
    <<"w", "e", "b", "m", "a", "s", "t", "e", "r", "@">>,
    <<"c", "o", "m", "m", "e", "r", "c", "i", "a", "l">>,
    <<"p", "r", "i", "v", "a", "c", "y">>,
    <<"e", "m", "a", "i", "l">>,
    <<"d", "o", "m", "a", "i", "n">>,
    <<"m", "a", "i", "l">> }

StrictLocalCh == AlnumLowerCh \cup {".", "_", "-"}
StrictHostCh == AlnumLowerCh \cup {".", "-"}

\* [a-z0-9]([class]*[a-z0-9])?  over the whole of s
EdgeAlnum(s, class) ==
    /\ s # <<>>
    /\ s[1] \in AlnumLowerCh
    /\ s[Len(s)] \in AlnumLowerCh
    /\ AllIn(s, class)

\* [a-z0-9]([a-z0-9.-]*[a-z0-9])?\.[a-z]{2,6}(\.[a-z]{2,3})?  over the whole of d
StrictDomain(d) ==
    \E t \in 2..6 : \E u \in {0, 2, 3} :
        LET n == Len(d)
            sfx == IF u = 0 THEN 0 ELSE u + 1
            dot == n - sfx - t
        IN  /\ dot > 1
            /\ d[dot] = "."
            /\ EdgeAlnum(SubSeq(d, 1, dot - 1), StrictHostCh)
            /\ AllIn(SubSeq(d, dot + 1, dot + t), LowerCh)
            /\ u # 0 => /\ d[dot + t + 1] = "."
                        /\ AllIn(SubSeq(d, dot + t + 2, n), LowerCh)

\* re.match(r'^[a-z0-9]([a-z0-9._-]*[a-z0-9])?@[a-z0-9]([a-z0-9.-]*[a-z0-9])?
\*            \.[a-z]{2,6}(\.[a-z]{2,3})?$', email) is not None
StrictMatch(email) ==
    LET k == FirstAt(email)
    IN  /\ k > 1
        /\ EdgeAlnum(SubSeq(email, 1, k - 1), StrictLocalCh)
        /\ StrictDomain(Drop(email, k))

\* the None of Optional[str]; a returned email is never the empty string
NoEmail == <<>>

\* steps (1) and (2) without the decoding of &#64;
NormalizeEmailNoEntity(email) ==
    Lower(Strip(Replace(email, HtmlAmp, <<"&">>), strip_chars))

\* steps (1) and (2): entity decoding, strip, lower
NormalizeEmail(email) ==
    Lower(Strip(Replace(Replace(email, HtmlAt, <<"@">>), HtmlAmp, <<"&">>), strip_chars))

IsSpam(clean_email) == \E pattern \in spam_patterns : Contains(clean_email, pattern)

(* the cleaner: steps (1)-(6) of _clean_extracted_email, the spam filter *)
(* applied to the raw candidate instead of the cleaned one                *)
CleanExtractedEmailRawSpam(email, custom_business_domains) ==
    IF email = <<>> THEN NoEmail
    ELSE LET clean_email == NormalizeEmail(email)
         IN  IF ~StrictMatch(clean_email) THEN NoEmail
             ELSE IF ~is_valid_email(clean_email) THEN NoEmail
             ELSE IF ~is_business_email(clean_email, custom_business_domains) THEN NoEmail
             ELSE IF IsSpam(email) THEN NoEmail
             ELSE clean_email

CleanExtractedEmail(email, custom_business_domains) ==
    IF email = <<>> THEN NoEmail
    ELSE LET clean_email == NormalizeEmail(email)
         IN  IF ~StrictMatch(clean_email) THEN NoEmail
             ELSE IF ~is_valid_email(clean_email) THEN NoEmail
             ELSE IF ~is_business_email(clean_email, custom_business_domains) THEN NoEmail
             ELSE IF IsSpam(clean_email) THEN NoEmail
             ELSE clean_email

(***************************************************************************)
(* Raw candidates handed to the cleaner: prefix, local part, "@" or its    *)
(* entity, domain, suffix                                                  *)
(***************************************************************************)
CandPrefix == { <<>>, <<"<">>, <<" ">>, <<"\n", "(">> }
CandSuffix == { <<>>, <<">">>, <<";", "?">> }
CandAt == { <<"@">>, HtmlAt }
CandLocal == {
    <<"j", "a", "n", "e">>,
    <<"J", "a", "n", "e">>,
    <<"s", "a", "l", "e", "s">>,
    <<"n", "o", "r", "e", "p", "l", "y">>,
    <<"N", "o", "R", "e", "p", "l", "y">>,
    <<"j">>,
    <<".", "x">>,
    <<"t", "e", "s", "t">>,
    <<"a", "_", "b">> }
CandDomain == {
    <<"a", "c", "m", "e", "-", "c", "o", "r", "p", ".", "c", "o", "m">>,
    <<"y", "a", "h", "o", "o", ".", "c", "o", "m">>,
    <<"Y", "A", "H", "O", "O", ".", "c", "o", "m">>,
    <<"g", "m", "a", "i", "l", ".", "c", "o", "m">>,
    <<"a", "c", "m", "e", ".", "i", "n", "f", "o">>,
    <<"a", "c", "m", "e", ".", "c", "o", ".", "u", "k">>,
    <<"e", "x", "a", "m", "p", "l", "e", ".", "c", "o", "m">>,
    <<"m", "a", "i", "l", ".", "a", "c", "m", "e", ".", "c", "o", "m">>,
    <<"a", "c", "m", "e", ".", "c">>,
    <<"a", "c", "m", "e", "-", ".", "c", "o", "m">> }

RawCandidates ==
    { p \o l \o a \o d \o s :
        p \in CandPrefix, l \in CandLocal, a \in CandAt, d \in CandDomain, s \in CandSuffix }

\* the per-sector sets the pipeline installs as custom_business_domains
CustomDomainSets == {
    {},
    { <<"y", "a", "h", "o", "o", ".", "c", "o", "m">> },
    { <<"g", "m", "a", "i", "l", ".", "c", "o", "m">>,
      <<"w", "i", "n", "e">> } }

(***************************************************************************)
(* URLs: an origin (scheme and host) and the text after it                 *)
(***************************************************************************)
UpperChar(c) ==
    IF c \in LowerCh THEN UpperSeq[CHOOSE i \in DOMAIN LowerSeq : LowerSeq[i] = c] ELSE c

\* str.title(): the first letter of every run of letters in upper case,
\* the other letters in lower case
Title(s) ==
    [i \in DOMAIN s |->
        IF s[i] \notin LetterCh THEN s[i]
        ELSE IF i = 1 \/ s[i - 1] \notin LetterCh THEN UpperChar(s[i])
        ELSE LowerChar(s[i])]

Origin == "https://acme.test"

Url(origin, path) == [origin |-> origin, path |-> path]

\* the text of path up to and including its last "/" ("/" for an empty path)
RECURSIVE DirOf(_)
DirOf(path) ==
    IF path = <<>> THEN <<"/">>
    ELSE IF path[Len(path)] = "/" THEN path
    ELSE DirOf(SubSeq(path, 1, Len(path) - 1))

\* urllib.parse.urljoin(base, href) for an href given as (origin or "", text):
\* an absolute href replaces the base, a rooted one keeps the origin, any
\* other is resolved against the directory of the base
urljoin(base, href) ==
    IF href.origin # "" THEN Url(href.origin, href.text)
    ELSE IF href.text = <<>> THEN base
    ELSE IF href.text[1] = "/" THEN Url(base.origin, href.text)
    ELSE Url(base.origin, DirOf(base.path) \o href.text)

(***************************************************************************)
(* Contact Discoverer (contact_extraction.py)                              *)
(***************************************************************************)
contact_page_patterns == <<
    <<"/", "c", "o", "n", "t", "a", "c", "t">>,
    <<"/", "c", "o", "n", "t", "a", "c", "t", "-", "u", "s">>,
    <<"/", "c", "o", "n", "t", "a", "c", "t", "s">>,
    <<"/", "c", "o", "n", "t", "a", "c", "t", "o">>,
    <<"/", "c", "o", "n", "t", "a", "t", "t", "i">>,
    <<"/", "a", "b", "o", "u", "t">>,
    <<"/", "a", "b", "o", "u", "t", "-", "u", "s">>,
    <<"/", "a", "b", "o", "u", "t", "-", "c", "o", "m", "p", "a", "n", "y">>,
    <<"/", "c", "h", "i", "-", "s", "i", "a", "m", "o">>,
    <<"/", "q", "u", "i", "e", "n", "e", "s", "-", "s", "o", "m", "o", "s">>,
    <<"/", "i", "n", "f", "o">>,
    <<"/", "i", "n", "f", "o", "r", "m", "a", "t", "i", "o", "n">>,
    <<"/", "c", "o", "m", "p", "a", "n", "y">>,
    <<"/", "e", "m", "p", "r", "e", "s", "a">>,
    <<"/", "s", "o", "c", "i", "e", "t", "e">>,
    <<"/", "l", "e", "g", "a", "l">>,
    <<"/", "m", "e", "n", "t", "i", "o", "n", "s", "-", "l", "e", "g", "a", "l", "e", "s">>,
    <<"/", "p", "r", "i", "v", "a", "c", "y">>,
    <<"/", "i", "m", "p", "r", "e", "s", "s", "u", "m">>,
    <<"/", "t", "e", "a", "m">>,
    <<"/", "s", "t", "a", "f", "f">>,
    <<"/", "e", "q", "u", "i", "p", "e">>,
    <<"/", "e", "q", "u", "i", "p", "o">> >>

contact_keywords == {
    <<"c", "o", "n", "t", "a", "c", "t">>,
    <<"c", "o", "n", "t", "a", "c", "t", " ", "u", "s">>,
    <<"g", "e", "t", " ", "i", "n", " ", "t", "o", "u", "c", "h">>,
    <<"r", "e", "a", "c", "h", " ", "u", "s">>,
    <<"a", "b", "o", "u", "t">>,
    <<"a", "b", "o", "u", "t", " ", "u", "s">>,
    <<"i", "n", "f", "o">>,
    <<"c", "o", "n", "t", "a", "c", "t", "e", "z", "-", "n", "o", "u", "s">>,
    <<"n", "o", "u", "s", " ", "c", "o", "n", "t", "a", "c", "t", "e", "r">>,
    <<"à", " ", "p", "r", "o", "p", "o", "s">>,
    <<"q", "u", "i", " ", "s", "o", "m", "m", "e", "s", "-", "n", "o", "u", "s">>,
    <<"c", "o", "n", "t", "a", "c", "t", "o">>,
    <<"c", "o", "n", "t", "á", "c", "t", "a", "n", "o", "s">>,
    <<"a", "c", "e", "r", "c", "a", " ", "d", "e">>,
    <<"q", "u", "i", "é", "n", "e", "s", " ", "s", "o", "m", "o", "s">>,
    <<"s", "o", "b", "r", "e", " ", "n", "o", "s", "o", "t", "r", "o", "s">>,
    <<"c", "o", "n", "t", "a", "t", "t", "i">>,
    <<"c", "o", "n", "t", "a", "t", "t", "a", "c", "i">>,
    <<"c", "h", "i", " ", "s", "i", "a", "m", "o">>,
    <<"i", "n", "f", "o", "r", "m", "a", "z", "i", "o", "n", "i">>,
    <<"k", "o", "n", "t", "a", "k", "t">>,
    <<"ü", "b", "e", "r", " ", "u", "n", "s">>,
    <<"i", "m", "p", "r", "e", "s", "s", "u", "m">> }

\* contact_page_patterns[:6]
TopPatterns == 6
\* len(contact_pages) < 3
MinContactLinks == 3
\* unique_pages[:5]
MaxContactPages == 5
\* len(all_emails) >= 5
EnoughEmails == 5

StrContact == <<"C", "o", "n", "t", "a", "c", "t", " ">>
StrContactOpen == <<"C", "o", "n", "t", "a", "c", "t", " ", "(">>
StrContactPage == <<"C", "o", "n", "t", "a", "c", "t", " ", "P", "a", "g", "e">>
StrHomepage == <<"H", "o", "m", "e", "p", "a", "g", "e">>
StrMailto == <<"m", "a", "i", "l", "t", "o", ":">>

Min(a, b) == IF a < b THEN a ELSE b

\* f"Contact {pattern.replace('/', '').replace('-', ' ').title()}"
PatternPageName(pattern) ==
    StrContact \o Title(Replace(Replace(pattern, <<"/">>, <<>>), <<"-">>, <<" ">>))

\* _generate_contact_urls_by_pattern appending to website_url as it is
GenerateContactUrlsNoRstrip(website_url) ==
    [i \in 1..Min(TopPatterns, Len(contact_page_patterns)) |->
        <<PatternPageName(contact_page_patterns[i]),
          Url(website_url.origin, website_url.path \o contact_page_patterns[i])>>]

\* _generate_contact_urls_by_pattern: the first TopPatterns patterns
\* appended to website_url.rstrip('/')
GenerateContactUrlsByPattern(website_url) ==
    [i \in 1..Min(TopPatterns, Len(contact_page_patterns)) |->
        <<PatternPageName(contact_page_patterns[i]),
          Url(website_url.origin,
              RStrip(website_url.path, {"/"}) \o contact_page_patterns[i])>>]

WhiteCh == {" ", "\n", "\t", "\r"}

\* an anchor of a page: href (origin or "", text), link text, and the search
\* areas (nav, header, footer, main_menu, sidebar) that enclose it
SearchAreas == <<"nav", "header", "footer", "main_menu", "sidebar", "content">>

\* href is skipped: empty, javascript: or fragment
HrefSkipped(href) ==
    \/ href.origin = "javascript:"
    \/ (href.origin = "" /\ Strip(href.text, WhiteCh) = <<>>)
    \/ (href.origin = "" /\ Strip(href.text, WhiteCh)[1] = "#")

\* the link text matches a keyword, or the href holds a contact pattern
IsContactLink(a) ==
    LET link_text == Lower(Strip(a.text, WhiteCh))
        href_lower == Lower(Strip(a.href.text, WhiteCh))
    IN  \/ \E keyword \in contact_keywords : Contains(link_text, keyword)
        \/ \E i \in DOMAIN contact_page_patterns :
              Contains(href_lower, contact_page_patterns[i])

ContactLinkEntry(a, base_url) ==
    LET link_text == Lower(Strip(a.text, WhiteCh))
        page_name == IF link_text # <<>>
                     THEN StrContactOpen \o SubSeq(link_text, 1, Min(20, Len(link_text)))
                          \o <<")">>
                     ELSE StrContactPage
    IN  <<page_name,
          urljoin(base_url, [origin |-> a.href.origin, text |-> Strip(a.href.text, WhiteCh)])>>

\* the contact links among anchors[k..] that lie in the given area
RECURSIVE LinksInArea(_, _, _, _)
LinksInArea(anchors, k, area, base_url) ==
    IF k > Len(anchors) THEN <<>>
    ELSE LET a == anchors[k]
             here == (area = "content" \/ area \in a.areas)
                     /\ ~HrefSkipped(a.href) /\ IsContactLink(a)
         IN  (IF here THEN <<ContactLinkEntry(a, base_url)>> ELSE <<>>)
             \o LinksInArea(anchors, k + 1, area, base_url)

\* _find_contact_links_in_page: the areas in priority order, the whole page
\* last; a link inside an area is therefore found again in "content"
RECURSIVE FindContactLinksFrom(_, _, _)
FindContactLinksFrom(anchors, n, base_url) ==
    IF n > Len(SearchAreas) THEN <<>>
    ELSE LinksInArea(anchors, 1, SearchAreas[n], base_url)
         \o FindContactLinksFrom(anchors, n + 1, base_url)

FindContactLinksInPage(soup, base_url) == FindContactLinksFrom(soup, 1, base_url)

\* "Remove duplicates while preserving order" (by URL, first occurrence)
RECURSIVE UniquePages(_, _)
UniquePages(pages, seen_urls) ==
    IF pages = <<>> THEN <<>>
    ELSE IF Head(pages)[2] \in seen_urls THEN UniquePages(Tail(pages), seen_urls)
    ELSE <<Head(pages)>> \o UniquePages(Tail(pages), seen_urls \cup {Head(pages)[2]})

Take(s, n) == SubSeq(s, 1, Min(n, Len(s)))

\* _discover_contact_pages extending by the pattern URLs whatever method 1 found
DiscoverContactPagesAlwaysPatterns(website_url, home) ==
    IF home.kind = "none" THEN GenerateContactUrlsByPattern(website_url)
    ELSE IF home.kind = "raise" THEN GenerateContactUrlsByPattern(website_url)
    ELSE LET contact_links == FindContactLinksInPage(home.anchors, website_url)
             contact_pages == contact_links \o GenerateContactUrlsByPattern(website_url)
         IN  Take(UniquePages(contact_pages, {}), MaxContactPages)

\* the outcome of engine.get_page(website_url) inside _discover_contact_pages:
\* kind "none" (fetch failed), "raise" (exception while scanning), or "soup"
\* with the anchors of the page
DiscoverContactPages(website_url, home) ==
    IF home.kind = "none" THEN GenerateContactUrlsByPattern(website_url)
    ELSE IF home.kind = "raise" THEN GenerateContactUrlsByPattern(website_url)
    ELSE LET contact_links == FindContactLinksInPage(home.anchors, website_url)
             contact_pages == IF Len(contact_links) < MinContactLinks
                              THEN contact_links \o GenerateContactUrlsByPattern(website_url)
                              ELSE contact_links
         IN  Take(UniquePages(contact_pages, {}), MaxContactPages)

(***************************************************************************)
(* Email Extractor: the four methods over one page                         *)
(***************************************************************************)
\* s.split(c)[0]
RECURSIVE SplitHead(_, _)
SplitHead(s, c) ==
    IF s = <<>> \/ Head(s) = c THEN <<>> ELSE <<Head(s)>> \o SplitHead(Tail(s), c)

\* s.split(c)
RECURSIVE Split(_, _)
Split(s, c) ==
    LET first == SplitHead(s, c)
    IN  IF Len(first) = Len(s) THEN <<first>>
        ELSE <<first>> \o Split(Drop(s, Len(first) + 1), c)

\* the emails the cleaner accepts among the candidates
Cleaned(candidates, custom) ==
    {CleanExtractedEmail(c, custom) : c \in candidates} \ {NoEmail}

\* href.replace('mailto:', '').split('?')[0].split('&')[0].split(',')
MailtoParts(href) ==
    Range(Split(SplitHead(SplitHead(Replace(href, StrMailto, <<>>), "?"), "&"), ","))

\* _extract_emails_from_mailto_links adding the split parts as they are
ExtractEmailsFromMailtoLinksRaw(hrefs, custom) ==
    UNION {MailtoParts(h) : h \in {g \in Range(hrefs) : StartsWith(g, StrMailto)}}

\* _extract_emails_from_mailto_links over the href values of the anchors
ExtractEmailsFromMailtoLinks(hrefs, custom) ==
    UNION {Cleaned(MailtoParts(h), custom) :
              h \in {g \in Range(hrefs) : StartsWith(g, StrMailto)}}

\* _extract_emails_from_text over the matches of the e-mail pattern in a text
ExtractEmailsFromText(matches, custom) == Cleaned(Range(matches), custom)

\* re.sub(r'\s+', '', match)
RECURSIVE RemoveSpaces(_)
RemoveSpaces(s) ==
    IF s = <<>> THEN <<>>
    ELSE IF Head(s) \in WhiteCh THEN RemoveSpaces(Tail(s))
    ELSE <<Head(s)>> \o RemoveSpaces(Tail(s))

\* the clean-up of one match of the three enhanced patterns
EnhancedCandidate(match) ==
    IF Contains(match, StrMailto) THEN Strip(Replace(match, StrMailto, <<>>), {"'", "\""})
    ELSE IF Contains(match, HtmlAt) THEN Replace(match, HtmlAt, <<"@">>)
    ELSE RemoveSpaces(match)

\* _extract_emails_with_enhanced_patterns over the matches in the raw HTML
ExtractEmailsWithEnhancedPatterns(matches, custom) ==
    Cleaned({EnhancedCandidate(m) : m \in Range(matches)}, custom)

\* method 3 over the contact areas of the page
ExtractEmailsFromAreas(areas, custom) ==
    UNION {ExtractEmailsFromText(areas[i].text, custom)
             \cup ExtractEmailsFromMailtoLinks(areas[i].mailto, custom) : i \in DOMAIN areas}

\* _extract_emails_from_single_page returning set() from its handler
ExtractEmailsNoneOnError(out, custom) ==
    IF out.kind # "soup" \/ out.raise_at # 0 THEN {}
    ELSE ExtractEmailsFromMailtoLinks(out.page.mailto, custom)
         \cup (IF ExtractEmailsFromMailtoLinks(out.page.mailto, custom) = {}
               THEN ExtractEmailsFromText(out.page.text, custom) ELSE {})
         \cup ExtractEmailsFromAreas(out.page.areas, custom)
         \cup ExtractEmailsWithEnhancedPatterns(out.page.html, custom)

\* _extract_emails_from_single_page for one outcome of engine.get_page:
\* kind "none" (no page), or "soup" with the page and raise_at = k when an
\* exception is raised on entering method k (0: none); the handler returns
\* what was found so far
ExtractEmailsFromSinglePage(out, custom) ==
    IF out.kind # "soup" THEN {}
    ELSE LET stop == IF out.raise_at = 0 THEN 5 ELSE out.raise_at
             m1 == IF stop > 1 THEN ExtractEmailsFromMailtoLinks(out.page.mailto, custom)
                   ELSE {}
             m2 == IF stop > 2 /\ m1 = {} THEN ExtractEmailsFromText(out.page.text, custom)
                   ELSE {}
             m3 == IF stop > 3 THEN ExtractEmailsFromAreas(out.page.areas, custom) ELSE {}
             m4 == IF stop > 4 THEN ExtractEmailsWithEnhancedPatterns(out.page.html, custom)
                   ELSE {}
         IN  m1 \cup m2 \cup m3 \cup m4

(***************************************************************************)
(* sorted(list(all_emails)): code-point order of str (printable ASCII     *)
(* without backslash and backquote, which occur in no text of the model)  *)
(***************************************************************************)
AsciiSeq == <<"\t", "\n", "\r", " ", "!", "\"", "#", "$", "%", "&", "'", "(", ")", "*",
              "+", ",", "-", ".", "/", "0", "1", "2", "3", "4", "5", "6", "7", "8", "9",
              ":", ";", "<", "=", ">", "?", "@",
              "A", "B", "C", "D", "E", "F", "G", "H", "I", "J", "K", "L", "M",
              "N", "O", "P", "Q", "R", "S", "T", "U", "V", "W", "X", "Y", "Z",
              "[", "]", "^", "_",
              "a", "b", "c", "d", "e", "f", "g", "h", "i", "j", "k", "l", "m",
              "n", "o", "p", "q", "r", "s", "t", "u", "v", "w", "x", "y", "z",
              "{", "|", "}", "~">>

Ord(c) == CHOOSE i \in DOMAIN AsciiSeq : AsciiSeq[i] = c

\* a < b for str
RECURSIVE StrLess(_, _)
StrLess(a, b) ==
    IF b = <<>> THEN FALSE
    ELSE IF a = <<>> THEN TRUE
    ELSE IF Head(a) = Head(b) THEN StrLess(Tail(a), Tail(b))
    ELSE Ord(Head(a)) < Ord(Head(b))

RECURSIVE Sorted(_)
Sorted(S) ==
    IF S = {} THEN <<>>
    ELSE LET least == CHOOSE x \in S : \A y \in S \ {x} : StrLess(x, y)
         IN  <<least>> \o Sorted(S \ {least})

\* list(all_emails) returned in descending order
RECURSIVE SortedDescending(_)
SortedDescending(S) ==
    IF S = {} THEN <<>>
    ELSE LET greatest == CHOOSE x \in S : \A y \in S \ {x} : StrLess(y, x)
         IN  <<greatest>> \o SortedDescending(S \ {greatest})

\* final_emails = sorted(list(all_emails))
FinalEmails(all) == Sorted(all)

\* the break test after a page: len(all_emails) > 5 instead of >= 5
EnoughStrict(all) == Cardinality(all) > EnoughEmails

\* the break test after a page
Enough(all) == Cardinality(all) >= EnoughEmails

(***************************************************************************)
(* The web as the extractor sees it                                        *)
(***************************************************************************)
WebsiteUrls == { Url(Origin, <<>>), Url(Origin, <<"/">>) }

Anchor(origin, text, link_text, areas) ==
    [href |-> [origin |-> origin, text |-> text], text |-> link_text, areas |-> areas]

AContact == Anchor("", <<"/", "c", "o", "n", "t", "a", "c", "t">>,
                   <<"C", "o", "n", "t", "a", "c", "t">>, {"nav"})
AImpressum == Anchor("", <<"/", "i", "m", "p", "r", "e", "s", "s", "u", "m">>,
                     <<"I", "m", "p", "r", "e", "s", "s", "u", "m">>, {"footer"})
AProducts == Anchor("", <<"/", "p", "r", "o", "d", "u", "c", "t", "s">>,
                    <<"P", "r", "o", "d", "u", "c", "t", "s">>, {"nav"})
AAbout == Anchor(Origin, <<"/", "a", "b", "o", "u", "t">>,
                 <<" ", "A", "b", "o", "u", "t", " ", "u", "s">>, {"header"})
AInfoHome == Anchor(Origin, <<>>, <<"I", "n", "f", "o">>, {})
AKontakt == Anchor("", <<"k", "o", "n", "t", "a", "k", "t", ".", "p", "h", "p">>,
                   <<"K", "o", "n", "t", "a", "k", "t">>, {"nav", "main_menu"})
ATeam == Anchor("", <<"/", "t", "e", "a", "m">>, <<>>, {})
AScript == Anchor("javascript:", <<"v", "o", "i", "d", "(", "0", ")">>,
                  <<"C", "o", "n", "t", "a", "c", "t">>, {"nav"})
AFragment == Anchor("", <<"#", "c", "o", "n", "t", "a", "c", "t">>,
                    <<"C", "o", "n", "t", "a", "c", "t">>, {"nav"})

\* anchor lists of the homepages
HomePages == {
    <<>>,
    <<AProducts, AScript, AFragment>>,
    <<ATeam>>,
    <<AContact>>,
    <<AProducts, AContact, AImpressum>>,
    <<AInfoHome, AKontakt>>,
    <<AContact, AAbout, AImpressum, AKontakt, ATeam, AInfoHome>> }

HomeOutcomes ==
    { [kind |-> "none", anchors |-> <<>>], [kind |-> "raise", anchors |-> <<>>] }
    \cup { [kind |-> "soup", anchors |-> h] : h \in HomePages }

Page(mailto, text, areas, html) ==
    [mailto |-> mailto, text |-> text, areas |-> areas, html |-> html]

PgEmpty == Page(<<>>, <<>>, <<>>, <<>>)
PgContact ==
    Page(<< <<"m", "a", "i", "l", "t", "o", ":", "i", "n", "f", "o", "@", "a", "c", "m", "e", ".", "d", "e", "?", "s", "u", "b", "j", "e", "c", "t", "=", "H", "i">>,
            <<"/", "i", "m", "p", "r", "i", "n", "t">> >>,
         << <<"j", "o", "b", "s", "@", "a", "c", "m", "e", ".", "d", "e">> >>,
         << [text |-> << <<"h", "r", "@", "a", "c", "m", "e", ".", "d", "e">>,
                         <<"j", "a", "n", "e", "@", "g", "m", "a", "i", "l", ".", "c", "o", "m">> >>,
             mailto |-> <<>>] >>,
         << <<"s", "a", "l", "e", "s", "&", "#", "6", "4", ";", "a", "c", "m", "e", ".", "d", "e">> >>)
PgText ==
    Page(<<>>,
         << <<"p", "r", "@", "a", "c", "m", "e", ".", "d", "e">>,
            <<"n", "o", "r", "e", "p", "l", "y", "@", "a", "c", "m", "e", ".", "d", "e">> >>,
         <<>>,
         << <<"\"", "m", "a", "i", "l", "t", "o", ":", "i", "t", "@", "a", "c", "m", "e", ".", "d", "e", "\"">> >>)
PgBig ==
    Page(<< <<"m", "a", "i", "l", "t", "o", ":", "s", "a", "l", "e", "s", "@", "a", "c", "m", "e", ".", "d", "e", ",", "j", "o", "b", "s", "@", "a", "c", "m", "e", ".", "d", "e", ",", "c", "e", "o", "@", "a", "c", "m", "e", ".", "d", "e">> >>,
         <<>>,
         << [text |-> << <<"h", "r", "@", "a", "c", "m", "e", ".", "d", "e">>,
                         <<"i", "n", "f", "o", "@", "a", "c", "m", "e", ".", "d", "e">> >>,
             mailto |-> << <<"m", "a", "i", "l", "t", "o", ":", "p", "r", "@", "a", "c", "m", "e", ".", "d", "e">> >>] >>,
         << <<"i", "t", " ", "@", " ", "a", "c", "m", "e", ".", "d", "e">> >>)
PgTwo ==
    Page(<< <<"m", "a", "i", "l", "t", "o", ":", "c", "e", "o", "@", "a", "c", "m", "e", ".", "d", "e">>,
            <<"m", "a", "i", "l", "t", "o", ":", "J", "O", "B", "S", "@", "a", "c", "m", "e", ".", "d", "e">>,
            <<"m", "a", "i", "l", "t", "o", ":", "j", "a", "n", "e", "@", "y", "a", "h", "o", "o", ".", "c", "o", "m">> >>,
         <<>>, <<>>, <<>>)

Pages == {PgEmpty, PgContact, PgText, PgBig, PgTwo}

\* where an exception may be raised inside _extract_emails_from_single_page
RaisePoints == {0, 2, 4}

\* the pages on which one is raised: one with and one without mailto links
RaisingPages == {PgContact, PgText}

\* outcomes of the body of the per-page loop: the fetch returns no page, or a
\* page (with or without an exception inside the four methods), or the body
\* itself raises ("error", lines 118-120)
PageOutcomes ==
    { [kind |-> "none", page |-> PgEmpty, raise_at |-> 0],
      [kind |-> "error", page |-> PgEmpty, raise_at |-> 0] }
    \cup { [kind |-> "soup", page |-> p, raise_at |-> 0] : p \in Pages }
    \cup { [kind |-> "soup", page |-> p, raise_at |-> k] :
              p \in RaisingPages, k \in RaisePoints \ {0} }

\* every valid email a page holds, whichever method would find it
HeldBy(out, custom) ==
    IF out.kind # "soup" THEN {}
    ELSE ExtractEmailsFromMailtoLinks(out.page.mailto, custom)
         \cup ExtractEmailsFromText(out.page.text, custom)
         \cup ExtractEmailsFromAreas(out.page.areas, custom)
         \cup ExtractEmailsWithEnhancedPatterns(out.page.html, custom)

\* the functions above tabulated over the outcomes and custom sets of the model
PageEmails ==
    [c \in CustomDomainSets |->
        [out \in PageOutcomes |-> ExtractEmailsFromSinglePage(out, c)]]

PageHeld == [c \in CustomDomainSets |-> [out \in PageOutcomes |-> HeldBy(out, c)]]

Discovered ==
    [u \in WebsiteUrls |-> [home \in HomeOutcomes |-> DiscoverContactPages(u, home)]]

\* the page outcomes of the sites of a pipeline run
SiteOutcomes ==
    { [kind |-> "none", page |-> PgEmpty, raise_at |-> 0] }
    \cup { [kind |-> "soup", page |-> p, raise_at |-> 0] : p \in {PgContact, PgTwo} }

\* lines 101-116 as a whole: the values of all_emails on leaving the loop
\* over pages_to_check when it is entered with a value of S and n pages to go
RECURSIVE LoopSets(_, _, _)
LoopSets(S, n, custom) ==
    IF n = 0 \/ S = {} THEN S
    ELSE LET after == {a \cup PageEmails[custom][o] : a \in S, o \in SiteOutcomes}
             stopped == {a \in after : Enough(a)}
         IN  stopped \cup LoopSets(after \ stopped, n - 1, custom)

\* the lists one call of _extract_emails_from_website can return: [] after
\* a critical error, else the sorted emails of the homepage and the
\* discovered pages
WebsiteResults ==
    [c \in CustomDomainSets |->
        {<<>>} \cup
        { FinalEmails(a) :
            a \in UNION { LoopSets({{}}, 1 + Len(Discovered[u][h]), c) :
                            u \in WebsiteUrls, h \in HomeOutcomes } }]

(***************************************************************************)
(* Directory Traverser (directory_parser.py)                               *)
(***************************************************************************)
DirOrigin == "https://dir.test"

\* the text of the origins, for code that reads an href as a string
OriginText(origin) ==
    IF origin = DirOrigin
    THEN <<"h", "t", "t", "p", "s", ":", "/", "/", "d", "i", "r", ".", "t", "e", "s", "t">>
    ELSE IF origin = Origin
    THEN <<"h", "t", "t", "p", "s", ":", "/", "/", "a", "c", "m", "e", ".", "t", "e", "s", "t">>
    ELSE <<>>

\* link.get('href') as a string; NoHref is a link without the attribute
RawHref(href) == OriginText(href.origin) \o href.text
NoHref == [origin |-> "none", text |-> <<>>]

\* the None a Python function returns when it falls off its end
NoneValue == <<"None">>

WordCh == LetterCh \cup DigitCh \cup {"_"}

\* re.sub(r'\.\w+$', '', s): drop a final ".ext"
DropExtension(s) ==
    IF \E k \in DOMAIN s : s[k] = "." /\ k < Len(s) /\ AllIn(Drop(s, k), WordCh)
    THEN LET k == CHOOSE j \in DOMAIN s :
                     s[j] = "." /\ j < Len(s) /\ AllIn(Drop(s, j), WordCh)
         IN  SubSeq(s, 1, k - 1)
    ELSE s

\* re.sub(r'-\d+.*$', '', s): cut at the first hyphen that a digit follows
DropIdSuffix(s) ==
    LET hit(k) == s[k] = "-" /\ k < Len(s) /\ s[k + 1] \in DigitCh
    IN  IF \E k \in DOMAIN s : hit(k)
        THEN LET k == CHOOSE j \in DOMAIN s : hit(j) /\ \A i \in 1..(j - 1) : ~hit(i)
             IN  SubSeq(s, 1, k - 1)
        ELSE s

\* re.sub(r'\s+', ' ', s)
RECURSIVE CollapseSpaces(_)
CollapseSpaces(s) ==
    IF s = <<>> THEN <<>>
    ELSE IF Head(s) \in WhiteCh
    THEN <<" ">> \o CollapseSpaces(LStrip(s, WhiteCh))
    ELSE <<Head(s)>> \o CollapseSpaces(Tail(s))

\* strategy 6 of _extract_company_name: a name from the first path segment
NameFromHref(href) ==
    LET company_part == Split(Strip(href, {"/"}), "/")[1]
        stem == DropIdSuffix(DropExtension(company_part))
        spaced == Replace(Replace(stem, <<"-">>, <<" ">>), <<"_">>, <<" ">>)
        name == Strip(CollapseSpaces(spaced), WhiteCh)
    IN  IF Len(name) > 1 THEN Title(name) ELSE NoneValue

\* the first text of texts[k..] that is longer than one character
RECURSIVE FirstLong(_, _)
FirstLong(texts, k) ==
    IF k > Len(texts) THEN <<>>
    ELSE IF Len(texts[k]) > 1 THEN texts[k]
    ELSE FirstLong(texts, k + 1)

\* _extract_company_name: link text, span text, text of a nested element,
\* title, aria-label, then the URL path; None when nothing is longer than one
\* character (the texts are given as get_text(strip=True) returns them)
ExtractCompanyName(link) ==
    IF Len(link.text) > 1 THEN link.text
    ELSE IF Len(link.span) > 1 THEN link.span
    ELSE IF FirstLong(link.nested, 1) # <<>> THEN FirstLong(link.nested, 1)
    ELSE IF Len(Strip(link.title, WhiteCh)) > 1 THEN Strip(link.title, WhiteCh)
    ELSE IF Len(Strip(link.aria, WhiteCh)) > 1 THEN Strip(link.aria, WhiteCh)
    ELSE IF link.href # NoHref /\ RawHref(link.href) # <<>> THEN NameFromHref(RawHref(link.href))
    ELSE NoneValue

\* "" in the place of a URL and of a country
NoWebsite == Url("", <<>>)
NoCountry == <<>>

\* CompanyInfo(name=name, url=url) with the defaults of the dataclass
CompanyInfo(name, url) ==
    [name |-> name, url |-> url, website_url |-> NoWebsite, country |-> NoCountry,
     emails |-> <<>>]

\* _extract_links_from_page over links[k..] without the insert into seen_urls
RECURSIVE ExtractLinksNoInsert(_, _, _, _)
ExtractLinksNoInsert(links, k, base_url, seen) ==
    IF k > Len(links) THEN [companies |-> <<>>, seen |-> seen, skipped |-> FALSE]
    ELSE LET link == links[k]
             full_url == urljoin(base_url, link.href)
         IN  IF link.href = NoHref \/ RawHref(link.href) = <<>>
             THEN ExtractLinksNoInsert(links, k + 1, base_url, seen)
             ELSE IF full_url \in seen
             THEN [ExtractLinksNoInsert(links, k + 1, base_url, seen)
                     EXCEPT !.skipped = TRUE]
             ELSE LET rest == ExtractLinksNoInsert(links, k + 1, base_url, seen)
                  IN  [rest EXCEPT !.companies =
                          <<CompanyInfo(ExtractCompanyName(link), full_url)>> \o @]

\* _extract_links_from_page over links[k..]: a link without href is skipped,
\* one whose absolute URL is in seen_urls is skipped, any other is inserted
\* into seen_urls and emitted; the result is the stubs, the set afterwards and
\* whether a duplicate was skipped
RECURSIVE ExtractLinksFromPage(_, _, _, _)
ExtractLinksFromPage(links, k, base_url, seen) ==
    IF k > Len(links) THEN [companies |-> <<>>, seen |-> seen, skipped |-> FALSE]
    ELSE LET link == links[k]
             full_url == urljoin(base_url, link.href)
         IN  IF link.href = NoHref \/ RawHref(link.href) = <<>>
             THEN ExtractLinksFromPage(links, k + 1, base_url, seen)
             ELSE IF full_url \in seen
             THEN [ExtractLinksFromPage(links, k + 1, base_url, seen)
                     EXCEPT !.skipped = TRUE]
             ELSE LET rest == ExtractLinksFromPage(links, k + 1, base_url,
                                                   seen \cup {full_url})
                  IN  [rest EXCEPT !.companies =
                          <<CompanyInfo(ExtractCompanyName(link), full_url)>> \o @]

\* None in the place of a URL
NoUrl == Url("none", <<>>)

\* _find_next_page: the supplied selector, then the fallback selectors; the
\* soup gives the href each of them finds (NoHref: no element or no href)
FindNextPage(soup, current) ==
    IF soup.next # NoHref /\ RawHref(soup.next) # <<>> THEN urljoin(current, soup.next)
    ELSE IF soup.fallback # NoHref /\ RawHref(soup.fallback) # <<>>
    THEN urljoin(current, soup.fallback)
    ELSE NoUrl

(***************************************************************************)
(* Country of a profile (contact_extraction.py,                            *)
(* _extract_country_from_profile and its helpers).  The dictionaries hold  *)
(* the entries whose keys occur in the texts of this model, in the order   *)
(* of the source.                                                          *)
(***************************************************************************)
\* country_mappings of _normalize_country_name
country_mappings ==
    << [key |-> <<"u", "k">>, name |-> <<"U", "n", "i", "t", "e", "d", " ", "K", "i", "n", "g", "d", "o", "m">>],
       [key |-> <<"d", "e", "u", "t", "s", "c", "h", "l", "a", "n", "d">>, name |-> <<"G", "e", "r", "m", "a", "n", "y">>],
       [key |-> <<"i", "t", "a", "l", "i", "a">>, name |-> <<"I", "t", "a", "l", "y">>] >>

proper_countries == << <<"F", "r", "a", "n", "c", "e">>, <<"I", "t", "a", "l", "y">>, <<"S", "p", "a", "i", "n">>, <<"G", "e", "r", "m", "a", "n", "y">>, <<"U", "n", "i", "t", "e", "d", " ", "K", "i", "n", "g", "d", "o", "m">> >>

\* european_countries of _extract_country_from_profile
european_countries ==
    << [key |-> <<"f", "r", "a", "n", "c", "e">>, name |-> <<"F", "r", "a", "n", "c", "e">>],
       [key |-> <<"i", "t", "a", "l", "y">>, name |-> <<"I", "t", "a", "l", "y">>],
       [key |-> <<"s", "p", "a", "i", "n">>, name |-> <<"S", "p", "a", "i", "n">>],
       [key |-> <<"g", "e", "r", "m", "a", "n", "y">>, name |-> <<"G", "e", "r", "m", "a", "n", "y">>],
       [key |-> <<"u", "k">>, name |-> <<"U", "n", "i", "t", "e", "d", " ", "K", "i", "n", "g", "d", "o", "m">>],
       [key |-> <<"d", "e", "u", "t", "s", "c", "h", "l", "a", "n", "d">>, name |-> <<"G", "e", "r", "m", "a", "n", "y">>] >>

negative_indicators ==
    { <<"s", "h", "i", "p", " ", "t", "o">>, <<"d", "e", "l", "i", "v", "e", "r", "y", " ", "t", "o">>, <<"a", "v", "a", "i", "l", "a", "b", "l", "e", " ", "i", "n">>, <<"m", "a", "r", "k", "e", "t", "s", " ", "i", "n">>, <<"o", "p", "e", "r", "a", "t", "e", "s", " ", "i", "n">>,
      <<"s", "e", "l", "l", "s", " ", "t", "o">>, <<"e", "x", "p", "o", "r", "t", "s", " ", "t", "o">> }

url_country_patterns ==
    << [key |-> <<"/", "f", "r", "/">>, name |-> <<"F", "r", "a", "n", "c", "e">>],
       [key |-> <<"/", "d", "e", "/">>, name |-> <<"G", "e", "r", "m", "a", "n", "y">>],
       [key |-> <<"/", "i", "t", "/">>, name |-> <<"I", "t", "a", "l", "y">>] >>

\* the name of the first entry of table among the positions hits, else ""
FirstEntry(table, hits) ==
    IF hits = {} THEN NoCountry
    ELSE table[CHOOSE i \in hits : \A j \in hits : i <= j].name

\* _normalize_country_name
NormalizeCountryName(country_text) ==
    LET country_lower == Lower(Strip(country_text, WhiteCh))
        mapped == {i \in DOMAIN country_mappings : country_mappings[i].key = country_lower}
        proper == {i \in DOMAIN proper_countries :
                      Lower(proper_countries[i]) = country_lower}
    IN  IF Len(Strip(country_text, WhiteCh)) = 0 THEN NoCountry
        ELSE IF mapped # {} THEN FirstEntry(country_mappings, mapped)
        ELSE IF proper # {} THEN proper_countries[CHOOSE i \in proper : \A j \in proper : i <= j]
        ELSE NoCountry

\* _validate_country_context: only a negative indicator rejects
ValidateCountryContext(text) ==
    ~\E n \in negative_indicators : Contains(Lower(text), n)

\* the first key of european_countries that text contains, in a valid context
CountryInText(text) ==
    FirstEntry(european_countries,
               {i \in DOMAIN european_countries :
                   Contains(text, european_countries[i].key) /\ ValidateCountryContext(text)})

\* _extract_europages_country_pattern: the text of the span after a flag span
EuropagesCountryPattern(page) ==
    IF Len(page.flag) > 2 THEN NormalizeCountryName(page.flag) ELSE NoCountry

\* method 2: the elements the location selectors match, in selector order;
\* the first element with a country gives (country, selector)
RECURSIVE SelectorFinding(_, _)
SelectorFinding(elements, k) ==
    IF k > Len(elements) THEN <<>>
    ELSE LET text == Lower(elements[k].text)
         IN  IF Len(text) <= 500 /\ CountryInText(text) # NoCountry
             THEN << [country |-> CountryInText(text), method |-> elements[k].selector] >>
             ELSE SelectorFinding(elements, k + 1)

\* the text of a URL
UrlText(url) == OriginText(url.origin) \o url.path

\* _extract_country_from_url
ExtractCountryFromUrl(profile_url) ==
    FirstEntry(url_country_patterns,
               {i \in DOMAIN url_country_patterns :
                   Contains(Lower(UrlText(profile_url)), url_country_patterns[i].key)})

\* _extract_country_from_structured_data: addressCountry of the JSON-LD
ExtractCountryFromStructuredData(page) ==
    IF page.ld # <<>> THEN NormalizeCountryName(page.ld) ELSE NoCountry

\* _extract_country_from_meta_tags: content of the first geo meta tag
ExtractCountryFromMetaTags(page) ==
    IF page.meta # <<>> THEN NormalizeCountryName(page.meta) ELSE NoCountry

Finding(country, method) ==
    IF country = NoCountry THEN <<>> ELSE << [country |-> country, method |-> method] >>

\* what evidence source k appends to found_countries
MethodFinding(k, profile_url, page) ==
    CASE k = 1 -> Finding(EuropagesCountryPattern(page), "Europages Pattern")
      [] k = 2 -> SelectorFinding(page.elements, 1)
      [] k = 3 -> Finding(ExtractCountryFromUrl(profile_url), "URL")
      [] k = 4 -> Finding(ExtractCountryFromStructuredData(page), "Structured Data")
      [] k = 5 -> Finding(ExtractCountryFromMetaTags(page), "Meta Tags")
      [] k = 6 -> Finding(CountryInText(Lower(page.text)), "Full Text")

Methods == 6

\* the guard of sources 2..6 replaced by True
ShouldConsultAlways(found_countries) == TRUE

\* "if not found_countries", the guard of sources 2..6
ShouldConsult(found_countries) == found_countries = <<>>

\* method_priority.get(method, 99)
MethodPriority(method) ==
    CASE method = "Europages Pattern" -> 1
      [] method = "company-address" -> 2
      [] method = "address" -> 3
      [] method = "contact-info" -> 4
      [] method = "URL" -> 5
      [] method = "Structured Data" -> 6
      [] method = "Meta Tags" -> 7
      [] method = "Full Text" -> 8
      [] OTHER -> 99

\* found_countries.sort(key=priority); found_countries[0][0]  (stable sort:
\* the first of the entries of least priority)
BestCountry(found_countries) ==
    LET p(i) == MethodPriority(found_countries[i].method)
        best == CHOOSE i \in DOMAIN found_countries :
                    /\ \A j \in DOMAIN found_countries : p(i) <= p(j)
                    /\ \A j \in 1..(i - 1) : p(j) > p(i)
    IN  IF found_countries = <<>> THEN NoCountry ELSE found_countries[best].country

\* found_countries after sources k..6
RECURSIVE ConsultFrom(_, _, _, _)
ConsultFrom(k, profile_url, page, found) ==
    IF k > Methods THEN found
    ELSE IF k = 1 \/ ShouldConsult(found)
    THEN ConsultFrom(k + 1, profile_url, page, found \o MethodFinding(k, profile_url, page))
    ELSE ConsultFrom(k + 1, profile_url, page, found)

\* _extract_country_from_profile for one outcome of engine.get_page: no page
\* and an exception give ""
ExtractCountryFromProfile(profile_url, out) ==
    IF out.kind # "soup" THEN NoCountry
    ELSE BestCountry(ConsultFrom(1, profile_url, out.page, <<>>))

\* profile pages: flag text, elements matched by the location selectors, URL
\* of the JSON-LD addressCountry, geo meta content, page text
ProfilePage(flag, elements, ld, meta, text) ==
    [flag |-> flag, elements |-> elements, ld |-> ld, meta |-> meta, text |-> text]

Element(selector, text) == [selector |-> selector, text |-> text]

FlagTexts == { <<>>, <<"D", "e", "u", "t", "s", "c", "h", "l", "a", "n", "d">>, <<"D", "E">>, <<"A", "t", "l", "a", "n", "t", "i", "s">> }

ElementLists ==
    { <<>>,
      << Element(".company-address", <<"W", "e", " ", "s", "h", "i", "p", " ", "t", "o", " ", "I", "t", "a", "l", "y", " ", "a", "n", "d", " ", "S", "p", "a", "i", "n">>),
         Element(".address", <<"A", "d", "d", "r", "e", "s", "s", ":", " ", "L", "y", "o", "n", ",", " ", "F", "R", "A", "N", "C", "E">>) >>,
      << Element(".contact-info", <<"M", "i", "l", "a", "n", "o">>) >> }

LdTexts == { <<>>, <<" ", "I", "t", "a", "l", "i", "a", " ">>, <<"M", "a", "r", "s">> }

MetaTexts == { <<>>, <<"s", "p", "a", "i", "n">> }

PageTexts == { <<>>, <<"B", "a", "s", "e", "d", " ", "i", "n", " ", "H", "a", "m", "b", "u", "r", "g", ",", " ", "G", "e", "r", "m", "a", "n", "y", ".", " ", "O", "f", "f", "i", "c", "e", "s", " ", "i", "n", " ", "F", "r", "a", "n", "c", "e">>, <<"E", "x", "p", "o", "r", "t", "s", " ", "t", "o", " ", "S", "p", "a", "i", "n">> }

ProfilePages ==
    { ProfilePage(f, e, l, m, t) :
        f \in FlagTexts, e \in ElementLists, l \in LdTexts, m \in MetaTexts, t \in PageTexts }

ProfileOutcomes ==
    { [kind |-> "none", page |-> ProfilePage(<<>>, <<>>, <<>>, <<>>, <<>>)],
      [kind |-> "raise", page |-> ProfilePage(<<>>, <<>>, <<>>, <<>>, <<>>)] }
    \cup { [kind |-> "soup", page |-> p] : p \in ProfilePages }

(***************************************************************************)
(* The directory as the traverser sees it                                  *)
(***************************************************************************)
Link(origin, href, text, span, nested, title, aria) ==
    [href |-> [origin |-> origin, text |-> href], text |-> text, span |-> span,
     nested |-> nested, title |-> title, aria |-> aria]

LAcme == Link("", <<"a", "c", "m", "e", "-", "9", ".", "h", "t", "m", "l">>, <<"A", "c", "m", "e">>, <<>>, <<>>, <<>>, <<>>)
LAcmeRooted == Link("", <<"/", "d", "/", "a", "c", "m", "e", "-", "9", ".", "h", "t", "m", "l">>, <<>>, <<>>, <<>>, <<>>, <<>>)
LBoltAbsolute == Link(DirOrigin, <<"/", "f", "r", "/", "b", "o", "l", "t">>, <<>>, <<>>, <<>>, <<" ", "B", "o", "l", "t", " ", "A", "G", " ">>, <<>>)
LBolt == Link("", <<"/", "f", "r", "/", "b", "o", "l", "t">>, <<"B">>, <<"B">>, << <<"B">> >>, <<>>, <<"B", "o", "l", "t">>)
LCore == Link("", <<"c", "o", "r", "e", "_", "t", "e", "c", "-", "7", "x">>, <<>>, <<>>, <<>>, <<>>, <<>>)
LNoHref == [href |-> NoHref, text |-> <<"N", "o", "p", "e">>, span |-> <<>>, nested |-> <<>>,
            title |-> <<>>, aria |-> <<>>]
LEmptyHref == Link("", <<>>, <<"S", "e", "l", "f">>, <<>>, <<>>, <<>>, <<>>)

DirectoryUrl == Url(DirOrigin, <<"/", "d", "/", "1">>)

Relative(text) == [origin |-> "", text |-> text]

\* a directory page: the elements link_selector matches, the href of the
\* element pagination_selector matches and of the first fallback match
DirPage(links, next, fallback) == [links |-> links, next |-> next, fallback |-> fallback]

DirPages ==
    { DirPage(<<LAcme, LBolt, LAcmeRooted>>, Relative(<<"2">>), NoHref),
      DirPage(<<LBoltAbsolute, LCore, LNoHref, LAcme>>, NoHref, Relative(<<"/", "d", "/", "1">>)),
      DirPage(<<LEmptyHref, LCore>>, Relative(<<"2">>), NoHref),
      DirPage(<<>>, Relative(<<>>), NoHref) }

NoSoup == [kind |-> "none", page |-> DirPage(<<>>, NoHref, NoHref)]

DirOutcomes == {NoSoup} \cup { [kind |-> "soup", page |-> p] : p \in DirPages }

ProfileUrls ==
    { Url(DirOrigin, <<"/", "d", "/", "a", "c", "m", "e", "-", "9", ".", "h", "t", "m", "l">>), Url(DirOrigin, <<"/", "f", "r", "/", "b", "o", "l", "t">>),
      Url(DirOrigin, <<"/", "d", "/", "c", "o", "r", "e", "_", "t", "e", "c", "-", "7", "x">>) }


(***************************************************************************)
(* contact_extraction.py: the website of a company profile                 *)
(***************************************************************************)
\* lines 451-455
unwanted_domains == {
    <<"h", "u", "b", "s", "p", "o", "t", "u", "s", "e", "r", "c", "o", "n", "t", "e", "n", "t">>,
    <<"d", "r", "o", "p", "b", "o", "x", ".", "c", "o", "m">>,
    <<"d", "r", "i", "v", "e", ".", "g", "o", "o", "g", "l", "e", ".", "c", "o", "m">>,
    <<"o", "n", "e", "d", "r", "i", "v", "e", ".", "l", "i", "v", "e", ".", "c", "o", "m">>,
    <<"w", "e", "t", "r", "a", "n", "s", "f", "e", "r", ".", "c", "o", "m">>,
    <<"w", "e", ".", "t", "l">>,
    <<"s", "3", ".", "a", "m", "a", "z", "o", "n", "a", "w", "s", ".", "c", "o", "m">>,
    <<"b", "o", "x", ".", "c", "o", "m">>,
    <<"s", "h", "a", "r", "e", "p", "o", "i", "n", "t", ".", "c", "o", "m">>,
    <<"a", "d", "f", "o", "r", "m">> }

\* the keywords of line 490
website_keywords == {
    <<"w", "e", "b", "s", "i", "t", "e">>,
    <<"v", "i", "s", "i", "t">>,
    <<"s", "i", "t", "e">>,
    <<"h", "o", "m", "e", "p", "a", "g", "e">> }

HttpPrefix == <<"h", "t", "t", "p", ":", "/", "/">>
HttpsPrefix == <<"h", "t", "t", "p", "s", ":", "/", "/">>

\* Python's truth value of a str or None
Truthy(value) == value # NoneValue /\ value # <<>>

\* _is_valid_website_url testing the blocklist against url as it is written
IsValidWebsiteUrlCaseSensitive(url) ==
    /\ Truthy(url)
    /\ StartsWith(url, HttpPrefix) \/ StartsWith(url, HttpsPrefix)
    /\ ~\E domain \in unwanted_domains : Contains(url, domain)

\* _is_valid_website_url, lines 446-460
IsValidWebsiteUrl(url) ==
    /\ Truthy(url)
    /\ StartsWith(url, HttpPrefix) \/ StartsWith(url, HttpsPrefix)
    /\ LET lowered_url == Lower(url)
       IN  ~\E domain \in unwanted_domains : Contains(lowered_url, domain)

\* an <a> of a profile page: its href (NoneValue: no attribute), its text
\* and whether its class attribute contains "website-button"
ProfileAnchor(href, text, button) == [href |-> href, text |-> text, button |-> button]

\* soup.select_one('a.website-button, a[class*="website-button"]'): the index
\* of the first such anchor in document order at or after k, 0 if there is none
RECURSIVE SelectWebsiteButton(_, _)
SelectWebsiteButton(page, k) ==
    IF k > Len(page) THEN 0
    ELSE IF page[k].button THEN k
    ELSE SelectWebsiteButton(page, k + 1)

\* soup.select('a[href^="http"]'): the anchors whose href starts with http
ExternalLinks(page) ==
    SelectSeq(page, LAMBDA a : a.href # NoneValue /\ StartsWith(a.href, <<"h", "t", "t", "p">>))

\* line 490: a keyword occurs in link.get_text().lower()
HasWebsiteKeyword(link) ==
    LET link_text == Lower(link.text)
    IN  \E keyword \in website_keywords : Contains(link_text, keyword)

TxVisit == <<"V", "i", "s", "i", "t", " ", "u", "s">>
TxHome == <<"H", "O", "M", "E", "P", "A", "G", "E">>
TxAbout == <<"A", "b", "o", "u", "t">>

HrGood == <<"h", "t", "t", "p", "s", ":", "/", "/", "a", "c", "m", "e", ".", "t", "e", "s", "t">>
HrPlain == <<"h", "t", "t", "p", ":", "/", "/", "b", "o", "l", "t", ".", "t", "e", "s", "t", "/", "e", "n">>
HrUpperScheme == <<"H", "T", "T", "P", "S", ":", "/", "/", "a", "c", "m", "e", ".", "t", "e", "s", "t">>
HrFtp == <<"f", "t", "p", ":", "/", "/", "a", "c", "m", "e", ".", "t", "e", "s", "t">>
HrRelative == <<"/", "o", "u", "t", "/", "a", "c", "m", "e">>
HrHttpx == <<"h", "t", "t", "p", "x", ":", "/", "/", "a", "c", "m", "e", ".", "t", "e", "s", "t">>
HrTransfer == <<"h", "t", "t", "p", "s", ":", "/", "/", "W", "e", "T", "r", "a", "n", "s", "f", "e", "r", ".", "c", "o", "m", "/", "d", "l", "/", "f">>
HrDrive == <<"h", "t", "t", "p", "s", ":", "/", "/", "d", "r", "i", "v", "e", ".", "g", "o", "o", "g", "l", "e", ".", "c", "o", "m", "/", "f">>
HrQuery == <<"h", "t", "t", "p", "s", ":", "/", "/", "c", "o", "r", "e", ".", "t", "e", "s", "t", "/", "?", "u", "=", "w", "e", ".", "t", "l">>

WebsiteHrefs == {HrGood, HrPlain, HrUpperScheme, HrFtp, HrRelative, HrHttpx, HrTransfer,
                 HrDrive, HrQuery, <<>>, NoneValue}

\* the anchors of the profile pages of the model
ProfileAnchors ==
    { ProfileAnchor(h, <<>>, TRUE) : h \in WebsiteHrefs }
    \cup { ProfileAnchor(h, t, FALSE) : h \in {HrGood, HrUpperScheme, HrHttpx, HrTransfer},
                                        t \in {TxVisit, TxHome, TxAbout} }

MaxAnchors == 2

\* what get_page gives for the profile: None, a page of up to MaxAnchors
\* anchors, or a page on which a call of the try of lines 472-494 raises
WebsiteOutcomes ==
    { [kind |-> "none", page |-> <<>>], [kind |-> "raise", page |-> <<>>] }
    \cup { [kind |-> "soup", page |-> p] :
             p \in UNION { [1..n -> ProfileAnchors] : n \in 0..MaxAnchors } }
(***************************************************************************)
(* State                                                                   *)
(***************************************************************************)
VARIABLES
    \* EmailValidator.custom_business_domains of the shared validator
    custom_domains,
    \* cleaner harness: one raw candidate, the result of cleaning it and of
    \* cleaning that result again
    cl_pc, cl_email, cl_result, cl_again,
    \* one call of _extract_emails_from_website: its position, argument and
    \* locals, the list it returns, whether get_page was ever called with
    \* len(all_emails) >= 5, and the valid emails held by the pages fetched;
    \* what get_page gave _discover_contact_pages, and what the fetch and the
    \* methods did on the page last looped over if an exception was raised on
    \* it (NoPage if none was)
    ex_pc, website_url, contact_pages, pages_to_check, ex_i, all_emails,
    final_emails, ex_late, ex_held, ex_home, ex_raised,
    \* whether get_page has been called with no time.sleep(1.5) after it
    ex_undelayed,
    \* DirectoryParser: seen_urls of the instance, the number of calls of
    \* extract_company_links so far, and of the call in progress its
    \* position, arguments and locals (tr_soup: what get_page last returned),
    \* whether it skipped a seen URL and how often it called get_page
    seen_urls, tr_calls, tr_pc, pagination_selector, max_pages, companies,
    current_url, current_page, tr_skipped, tr_soup, tr_fetches,
    \* run_pipeline: its position and argument, the company objects (steps
    \* 2-3), the loop index of step 5 and companies_with_contacts as the
    \* positions of its objects; the positions of the companies whose email
    \* extraction raised, and the lists handed to the two exports (as
    \* positions of objects; NotExported before the call)
    pl_pc, limit_companies, pl_companies, pl_i, companies_with_contacts,
    pl_raised, exported_links, exported_emails,
    \* one call of _extract_country_from_profile: its position, argument and
    \* page, found_countries, the sources consulted and the value returned
    co_pc, profile_url, co_page, co_k, found_countries, consulted, co_result,
    \* WebScrapingEngine: use_selenium and whether driver is set, and of the
    \* call of get_page in progress its position and arguments, the fetches
    \* the transports attempted, the exceptions logged and the value returned
    use_selenium, driver, fe_pc, fe_url, wait_for_element, fe_attempts, fe_errors,
    fe_result,
    \* main: its position, the index in directories of the sector of the
    \* loop, and the sectors whose run_pipeline has ended, with how it ended
    ma_pc, sector, ma_log,
    \* one call of _extract_website_from_profile and the assignment of
    \* extract_website_urls after it: the position, what get_page gave, the
    \* index of the loop over the external links, the value returned and
    \* company.website_url
    ws_pc, ws_out, ws_k, ws_result, ws_website,
    \* threads running _extract_links_from_page on one DirectoryParser: per
    \* thread the links its page gives, its position, the index of its loop
    \* and its local list companies; the holder of seen_urls_lock (0: free)
    th_links, th_pc, th_k, th_companies, seen_urls_lock,
    \* one call of _extract_company_name from the loop of
    \* _extract_links_from_page: the position, the link and the stub appended
    nm_pc, nm_link, nm_stub,
    \* one call of _extract_emails_from_single_page in steps: the position,
    \* what get_page and the methods do on the page, the methods that ran
    \* and the local set found_emails
    pg_pc, pg_out, pg_ran, found_emails,
    \* threads calling get_page on one WebScrapingEngine with the browser
    \* driver: per thread its position, the URL it asked for and the URL of
    \* the document it was given; the holder of the engine's lock (0: free)
    \* and the URL of the document the driver shows
    en_pc, en_url, en_doc, engine_lock, driver_page

cl_vars == <<cl_pc, cl_email, cl_result, cl_again>>
ex_vars == <<ex_pc, website_url, contact_pages, pages_to_check, ex_i, all_emails,
             final_emails, ex_late, ex_held, ex_home, ex_raised, ex_undelayed>>
tr_vars == <<seen_urls, tr_calls, tr_pc, pagination_selector, max_pages, companies,
             current_url, current_page, tr_skipped, tr_soup, tr_fetches>>
pl_vars == <<pl_pc, limit_companies, pl_companies, pl_i, companies_with_contacts,
             pl_raised, exported_links, exported_emails>>
co_vars == <<co_pc, profile_url, co_page, co_k, found_countries, consulted, co_result>>

fe_vars == <<use_selenium, driver, fe_pc, fe_url, wait_for_element, fe_attempts,
             fe_errors, fe_result>>

ma_vars == <<ma_pc, sector, ma_log>>

ws_vars == <<ws_pc, ws_out, ws_k, ws_result, ws_website>>

th_vars == <<th_links, th_pc, th_k, th_companies, seen_urls_lock>>

nm_vars == <<nm_pc, nm_link, nm_stub>>

pg_vars == <<pg_pc, pg_out, pg_ran, found_emails>>

en_vars == <<en_pc, en_url, en_doc, engine_lock, driver_page>>

more_vars == <<nm_vars, pg_vars, en_vars>>

late_vars == <<ws_vars, th_vars, more_vars>>

\* the components no action of the five specifications above changes
ext_vars == <<fe_vars, ma_vars, late_vars>>

vars == <<custom_domains, cl_vars, ex_vars, tr_vars, pl_vars, co_vars, ext_vars>>

NoLimit == [given |-> FALSE, n |-> 0]

\* an export that has not been called
NotExported == <<0>>

\* get_page returned None, for the homepage and for a candidate page
NoHome == [kind |-> "none", anchors |-> <<>>]
NoPage == [kind |-> "none", page |-> PgEmpty, raise_at |-> 0]

ClIdle ==
    /\ cl_pc = "idle"
    /\ cl_email = <<>>
    /\ cl_result = NoEmail
    /\ cl_again = NoEmail

ExIdle ==
    /\ ex_pc = "idle"
    /\ website_url = NoWebsite
    /\ contact_pages = <<>>
    /\ pages_to_check = <<>>
    /\ ex_i = 0
    /\ all_emails = {}
    /\ final_emails = <<>>
    /\ ex_late = FALSE
    /\ ex_held = {}
    /\ ex_home = NoHome
    /\ ex_raised = NoPage
    /\ ex_undelayed = FALSE

\* a DirectoryParser just constructed, no call in progress
TrIdle ==
    /\ seen_urls = {}
    /\ tr_calls = 0
    /\ tr_pc = "idle"
    /\ pagination_selector = FALSE
    /\ max_pages = 0
    /\ companies = <<>>
    /\ current_url = DirectoryUrl
    /\ current_page = 0
    /\ tr_skipped = FALSE
    /\ tr_soup = NoSoup
    /\ tr_fetches = 0

PlIdle ==
    /\ pl_pc = "idle"
    /\ limit_companies = NoLimit
    /\ pl_companies = <<>>
    /\ pl_i = 0
    /\ companies_with_contacts = <<>>
    /\ pl_raised = {}
    /\ exported_links = NotExported
    /\ exported_emails = NotExported

CoIdle ==
    /\ co_pc = "idle"
    /\ profile_url = NoWebsite
    /\ co_page = ProfilePage(<<>>, <<>>, <<>>, <<>>, <<>>)
    /\ co_k = 1
    /\ found_countries = <<>>
    /\ consulted = <<>>
    /\ co_result = NoCountry

\* an engine constructed with use_selenium = False, no call in progress
FeIdle ==
    /\ use_selenium = FALSE
    /\ driver = FALSE
    /\ fe_pc = "idle"
    /\ fe_url = NoWebsite
    /\ wait_for_element = FALSE
    /\ fe_attempts = <<>>
    /\ fe_errors = <<>>
    /\ fe_result = "pending"

\* main is not running
MaIdle ==
    /\ ma_pc = "idle"
    /\ sector = 0
    /\ ma_log = <<>>

\* no website is being resolved
WsIdle ==
    /\ ws_pc = "idle"
    /\ ws_out = [kind |-> "none", page |-> <<>>]
    /\ ws_k = 0
    /\ ws_result = NoneValue
    /\ ws_website = NoneValue

\* no thread is running
ThIdle ==
    /\ th_links = <<>>
    /\ th_pc = <<>>
    /\ th_k = <<>>
    /\ th_companies = <<>>
    /\ seen_urls_lock = 0

\* no name is being extracted
NmIdle ==
    /\ nm_pc = "idle"
    /\ nm_link = LNoHref
    /\ nm_stub = CompanyInfo(<<>>, NoUrl)

\* no single page is being processed
PgIdle ==
    /\ pg_pc = "idle"
    /\ pg_out = NoPage
    /\ pg_ran = {}
    /\ found_emails = {}

\* no thread is fetching
EnIdle ==
    /\ en_pc = <<>>
    /\ en_url = <<>>
    /\ en_doc = <<>>
    /\ engine_lock = 0
    /\ driver_page = NoWebsite

MoreIdle == NmIdle /\ PgIdle /\ EnIdle

LateIdle == WsIdle /\ ThIdle /\ MoreIdle

ExtIdle == FeIdle /\ MaIdle /\ LateIdle

(***************************************************************************)
(* SpecClean: _clean_extracted_email applied to every raw candidate        *)
(***************************************************************************)
CleanInit ==
    /\ custom_domains \in CustomDomainSets
    /\ cl_pc = "raw"
    /\ cl_email \in RawCandidates
    /\ cl_result = NoEmail
    /\ cl_again = NoEmail
    /\ ExIdle /\ TrIdle /\ PlIdle /\ CoIdle /\ ExtIdle

\* one call of _clean_extracted_email on the raw candidate
Clean ==
    /\ cl_pc = "raw"
    /\ cl_result' = CleanExtractedEmail(cl_email, custom_domains)
    /\ cl_pc' = "cleaned"
    /\ UNCHANGED <<custom_domains, ext_vars, cl_email, cl_again, ex_vars, tr_vars, pl_vars, co_vars>>

\* a second call, on the email the first call returned
Reclean ==
    /\ cl_pc = "cleaned"
    /\ cl_result # NoEmail
    /\ cl_again' = CleanExtractedEmail(cl_result, custom_domains)
    /\ cl_pc' = "recleaned"
    /\ UNCHANGED <<custom_domains, ext_vars, cl_email, cl_result, ex_vars, tr_vars, pl_vars, co_vars>>

CleanNext == Clean \/ Reclean

SpecClean == CleanInit /\ [][CleanNext]_vars

(***************************************************************************)
(* SpecExtract: one call of _extract_emails_from_website                   *)
(***************************************************************************)
ExtractInit ==
    /\ custom_domains \in CustomDomainSets
    /\ ClIdle /\ TrIdle /\ PlIdle /\ CoIdle /\ ExtIdle
    /\ ex_pc = "start"
    /\ website_url \in WebsiteUrls
    /\ contact_pages = <<>>
    /\ pages_to_check = <<>>
    /\ ex_i = 0
    /\ all_emails = {}
    /\ final_emails = <<>>
    /\ ex_late = FALSE
    /\ ex_held = {}
    /\ ex_home = NoHome
    /\ ex_raised = NoPage
    /\ ex_undelayed = FALSE

\* lines 87-98: the homepage is queued, _discover_contact_pages fetches the
\* homepage once and its result is appended
DiscoverPages ==
    /\ ex_pc = "start"
    /\ \E home \in HomeOutcomes :
          /\ ex_home' = home
          /\ contact_pages' = Discovered[website_url][home]
          /\ pages_to_check' = << <<StrHomepage, website_url>> >> \o contact_pages'
    /\ ex_late' = (ex_late \/ Cardinality(all_emails) >= EnoughEmails)
    /\ ex_undelayed' = TRUE
    /\ ex_pc' = "pages"
    /\ UNCHANGED <<custom_domains, ext_vars, cl_vars, tr_vars, pl_vars, co_vars, website_url,
                   ex_i, all_emails, final_emails, ex_held, ex_raised>>

\* lines 126-128: an exception outside the per-page loop; the call returns []
CriticalError ==
    /\ ex_pc = "start"
    /\ pages_to_check' = << <<StrHomepage, website_url>> >>
    /\ final_emails' = <<>>
    /\ ex_pc' = "critical"
    /\ UNCHANGED <<custom_domains, ext_vars, cl_vars, tr_vars, pl_vars, co_vars, website_url,
                   contact_pages, ex_i, all_emails, ex_late, ex_held, ex_home, ex_raised,
                   ex_undelayed>>

\* lines 101-124: one iteration of the loop over pages_to_check; the call
\* returns sorted(list(all_emails)) after the break or after the last page.
\* time.sleep(1.5) of line 111 follows the fetch inside the try, so the
\* handler of lines 118-120 goes on to the next page without it
ExtractPage ==
    /\ ex_pc = "pages"
    /\ ex_i < Len(pages_to_check)
    /\ \E out \in PageOutcomes :
          LET page_emails == PageEmails[custom_domains][out]
              stop == out.kind # "error" /\ Enough(all_emails \cup page_emails)
          IN  /\ ex_raised' = IF out.kind = "error" \/ out.raise_at # 0 THEN out ELSE NoPage
              /\ all_emails' = IF out.kind = "error" THEN all_emails
                               ELSE all_emails \cup page_emails
              /\ ex_held' = ex_held \cup PageHeld[custom_domains][out]
              /\ ex_late' = (ex_late \/ Cardinality(all_emails) >= EnoughEmails)
              /\ ex_undelayed' = (out.kind = "error")
              /\ ex_i' = ex_i + 1
              /\ IF stop \/ ex_i + 1 = Len(pages_to_check)
                 THEN /\ final_emails' = FinalEmails(all_emails')
                      /\ ex_pc' = "done"
                 ELSE UNCHANGED <<final_emails, ex_pc>>
    /\ UNCHANGED <<custom_domains, ext_vars, cl_vars, tr_vars, pl_vars, co_vars, website_url,
                   contact_pages, pages_to_check, ex_home>>

ExtractNext == DiscoverPages \/ CriticalError \/ ExtractPage

SpecExtract == ExtractInit /\ [][ExtractNext]_vars

(***************************************************************************)
(* SpecTraverse: calls of extract_company_links on one DirectoryParser     *)
(***************************************************************************)
MaxCalls == 2
MaxPages == 3

TraverseInit ==
    /\ custom_domains = {}
    /\ ClIdle /\ ExIdle /\ TrIdle /\ PlIdle /\ CoIdle /\ ExtIdle

\* lines 53-57: the locals of a call; with max_pages < 1 the loop is not
\* entered and the call returns []
BeginTraversal(pagination, pages) ==
    /\ tr_calls < MaxCalls
    /\ tr_calls' = tr_calls + 1
    /\ pagination_selector' = pagination
    /\ max_pages' = pages
    /\ companies' = <<>>
    /\ current_page' = 1
    /\ current_url' = DirectoryUrl
    /\ tr_skipped' = FALSE
    /\ tr_soup' = NoSoup
    /\ tr_fetches' = 0
    /\ tr_pc' = IF 1 <= pages THEN "loop" ELSE "returned"
    /\ UNCHANGED seen_urls

\* a call of extract_company_links, the instance idle
StartTraversal ==
    /\ tr_pc \in {"idle", "returned"}
    /\ \E pagination \in BOOLEAN, pages \in 0..MaxPages : BeginTraversal(pagination, pages)
    /\ UNCHANGED <<custom_domains, ext_vars, cl_vars, ex_vars, pl_vars, co_vars>>

\* lines 72-81 looking for a next page whether or not a selector is given
GoOnWithoutSelector(pagination, page_no, pages, next_url, url) ==
    /\ page_no < pages
    /\ next_url # NoUrl
    /\ next_url # url

\* lines 72-81 without the comparison of next_url with current_url
GoOnUnguarded(pagination, page_no, pages, next_url, url) ==
    /\ pagination
    /\ page_no < pages
    /\ next_url # NoUrl

\* lines 72-81: the loop goes on to next_url
GoOn(pagination, page_no, pages, next_url, url) ==
    /\ pagination
    /\ page_no < pages
    /\ next_url # NoUrl
    /\ next_url # url

\* lines 57-83: one iteration of the loop over directory pages
VisitPage ==
    /\ tr_pc = "loop"
    /\ tr_fetches' = tr_fetches + 1
    /\ \E out \in DirOutcomes :
          /\ tr_soup' = out
          /\ IF out.kind = "none"
             THEN /\ tr_pc' = "returned"
                  /\ UNCHANGED <<seen_urls, companies, current_url, current_page, tr_skipped>>
             ELSE
               LET page == ExtractLinksFromPage(out.page.links, 1, current_url, seen_urls)
                   next_url == FindNextPage(out.page, current_url)
                   go_on == GoOn(pagination_selector, current_page, max_pages, next_url,
                                 current_url)
               IN  /\ companies' = companies \o page.companies
                   /\ seen_urls' = page.seen
                   /\ tr_skipped' = (tr_skipped \/ page.skipped)
                   /\ IF go_on
                      THEN /\ current_url' = next_url
                           /\ current_page' = current_page + 1
                           /\ tr_pc' = IF current_page' <= max_pages
                                       THEN "loop" ELSE "returned"
                      ELSE /\ tr_pc' = "returned"
                           /\ UNCHANGED <<current_url, current_page>>
    /\ UNCHANGED <<custom_domains, ext_vars, cl_vars, ex_vars, pl_vars, co_vars, tr_calls,
                   pagination_selector, max_pages>>

TraverseNext == StartTraversal \/ VisitPage

SpecTraverse == TraverseInit /\ [][TraverseNext]_vars

(***************************************************************************)
(* SpecPipeline: runs of run_pipeline on one BusinessScrapingPipeline      *)
(***************************************************************************)
MaxLimit == 2

Limits == {NoLimit} \cup { [given |-> TRUE, n |-> k] : k \in 0..MaxLimit }

\* DataProcessor.deduplicate_companies
RECURSIVE DeduplicateCompaniesFrom(_, _, _)
DeduplicateCompaniesFrom(list, k, seen) ==
    IF k > Len(list) THEN <<>>
    ELSE IF list[k].url \in seen THEN DeduplicateCompaniesFrom(list, k + 1, seen)
    ELSE <<list[k]>> \o DeduplicateCompaniesFrom(list, k + 1, seen \cup {list[k].url})

DeduplicateCompanies(list) == DeduplicateCompaniesFrom(list, 1, {})

\* "if limit_companies: companies = companies[:limit_companies]"
LimitCompanies(list, limit) ==
    IF limit.given /\ limit.n # 0 THEN Take(list, limit.n) ELSE list

\* the emails of a list not in seen, each once, in order
RECURSIVE UniqueEmails(_, _)
UniqueEmails(emails, seen) ==
    IF emails = <<>> THEN <<>>
    ELSE IF Head(emails) \in seen THEN UniqueEmails(Tail(emails), seen)
    ELSE <<Head(emails)>> \o UniqueEmails(Tail(emails), seen \cup {Head(emails)})

\* deduplicate_emails with seen_emails emptied for every company
RECURSIVE DeduplicateEmailsPerCompany(_, _, _, _)
DeduplicateEmailsPerCompany(objects, refs, k, seen) ==
    IF k > Len(refs) THEN objects
    ELSE LET unique == UniqueEmails(objects[refs[k]].emails, {})
         IN  DeduplicateEmailsPerCompany([objects EXCEPT ![refs[k]].emails = unique],
                                         refs, k + 1, {})

\* DataProcessor.deduplicate_emails over the objects that refs[k..] name:
\* each object's emails become those not seen before, in order
RECURSIVE DeduplicateEmails(_, _, _, _)
DeduplicateEmails(objects, refs, k, seen) ==
    IF k > Len(refs) THEN objects
    ELSE LET unique == UniqueEmails(objects[refs[k]].emails, seen)
         IN  DeduplicateEmails([objects EXCEPT ![refs[k]].emails = unique],
                               refs, k + 1, seen \cup Range(unique))

\* the outcomes of get_page on a profile during a pipeline run
RunProfileOutcomes ==
    { [kind |-> "none", page |-> ProfilePage(<<>>, <<>>, <<>>, <<>>, <<>>)],
      [kind |-> "soup", page |-> ProfilePage(<<>>, <<>>, <<>>, <<>>, <<>>)] }

\* what _extract_website_from_profile returns, None stored as ""
RunWebsites == { NoWebsite, Url(Origin, <<>>) }

\* business_domain_keywords of the sectors
RunKeywords == { {}, {<<"y", "a", "h", "o", "o", ".", "c", "o", "m">>} }

\* directory_config.get('max_pages', 2) of the sectors
RunMaxPages == {1, 2}

PipelineInit ==
    /\ custom_domains = {}
    /\ ClIdle /\ ExIdle /\ TrIdle /\ PlIdle /\ CoIdle /\ ExtIdle

\* lines 97-108 up to the first fetch of extract_company_links: the sector's
\* keywords are installed in the validator and the traversal begins
StartPipeline ==
    /\ pl_pc = "idle"
    /\ \E keywords \in RunKeywords, pagination \in BOOLEAN, pages \in RunMaxPages,
          limit \in Limits :
          /\ custom_domains' = keywords
          /\ BeginTraversal(pagination, pages)
          /\ limit_companies' = limit
    /\ pl_pc' = "links"
    /\ pl_companies' = <<>>
    /\ pl_i' = 0
    /\ companies_with_contacts' = <<>>
    /\ pl_raised' = {}
    /\ exported_links' = NotExported
    /\ exported_emails' = NotExported
    /\ UNCHANGED <<ext_vars, cl_vars, ex_vars, co_vars>>

\* lines 110-130: deduplicate_companies, the limit, extract_website_urls
\* (country and website of every company) and the export of the links; the
\* frame of extract_company_links is gone, its list lives on as the objects
ResolveWebsites ==
    /\ pl_pc = "links"
    /\ tr_pc = "returned"
    /\ LET list == LimitCompanies(DeduplicateCompanies(companies), limit_companies)
       IN  \E outs \in [DOMAIN list -> RunProfileOutcomes], sites \in [DOMAIN list -> RunWebsites] :
              pl_companies' =
                  [i \in DOMAIN list |->
                      [list[i] EXCEPT
                          !.country = ExtractCountryFromProfile(list[i].url, outs[i]),
                          !.website_url = sites[i]]]
    /\ exported_links' = [i \in DOMAIN pl_companies' |-> i]
    /\ pl_i' = 0
    /\ pl_pc' = "contacts"
    /\ tr_pc' = "idle"
    /\ pagination_selector' = FALSE
    /\ max_pages' = 0
    /\ companies' = <<>>
    /\ current_url' = DirectoryUrl
    /\ current_page' = 0
    /\ tr_skipped' = FALSE
    /\ tr_soup' = NoSoup
    /\ tr_fetches' = 0
    /\ UNCHANGED <<custom_domains, ext_vars, cl_vars, ex_vars, co_vars, seen_urls, tr_calls,
                   limit_companies, companies_with_contacts, pl_raised, exported_emails>>

\* the loop of step 5 without the try of lines 145-160: the exception
\* leaves the loop
OnCompanyErrorPropagate == "failed"

\* lines 158-160: the handler logs, and the loop goes on
OnCompanyError == "contacts"

\* lines 151-152: "if company.emails: companies_with_contacts.append(company)"
WithContacts(contacts, k, extracted_emails) ==
    IF extracted_emails # <<>> THEN Append(contacts, k) ELSE contacts

\* lines 137-167: one iteration of the loop over companies_with_websites;
\* the call of _extract_emails_from_website returns a list, or raises and
\* the handler of lines 158-160 leaves the company with emails = []
ProcessCompany ==
    /\ pl_pc = "contacts"
    /\ pl_i < Len(pl_companies)
    /\ LET company == pl_companies[pl_i + 1]
       IN  IF company.website_url # NoWebsite
           THEN \/ \E extracted_emails \in WebsiteResults[custom_domains] :
                      /\ pl_companies' =
                             [pl_companies EXCEPT ![pl_i + 1].emails = extracted_emails]
                      /\ companies_with_contacts' =
                             WithContacts(companies_with_contacts, pl_i + 1, extracted_emails)
                      /\ UNCHANGED <<pl_raised, pl_pc>>
                \/ /\ pl_companies' = [pl_companies EXCEPT ![pl_i + 1].emails = <<>>]
                   /\ pl_raised' = pl_raised \cup {pl_i + 1}
                   /\ pl_pc' = OnCompanyError
                   /\ UNCHANGED companies_with_contacts
           ELSE /\ pl_companies' = [pl_companies EXCEPT ![pl_i + 1].emails = <<>>]
                /\ UNCHANGED <<companies_with_contacts, pl_raised, pl_pc>>
    /\ pl_i' = pl_i + 1
    /\ UNCHANGED <<custom_domains, ext_vars, cl_vars, ex_vars, tr_vars, co_vars,
                   limit_companies, exported_links, exported_emails>>

\* lines 169-189: deduplicate_emails over companies_with_contacts and the
\* export of the emails
DeduplicateAndExport ==
    /\ pl_pc = "contacts"
    /\ pl_i = Len(pl_companies)
    /\ pl_companies' = DeduplicateEmails(pl_companies, companies_with_contacts, 1, {})
    /\ exported_emails' = companies_with_contacts
    /\ pl_pc' = "finished"
    /\ UNCHANGED <<custom_domains, ext_vars, cl_vars, ex_vars, tr_vars, co_vars, limit_companies,
                   pl_i, companies_with_contacts, pl_raised, exported_links>>

\* main, lines 348-358: run_pipeline has returned; its frame is gone and main
\* goes on to the next sector
EndRun ==
    /\ pl_pc = "finished"
    /\ pl_pc' = "idle"
    /\ limit_companies' = NoLimit
    /\ pl_companies' = <<>>
    /\ pl_i' = 0
    /\ companies_with_contacts' = <<>>
    /\ pl_raised' = {}
    /\ exported_links' = NotExported
    /\ exported_emails' = NotExported
    /\ UNCHANGED <<custom_domains, ext_vars, cl_vars, ex_vars, tr_vars, co_vars>>

PipelineNext ==
    \/ StartPipeline
    \/ VisitPage
    \/ ResolveWebsites
    \/ ProcessCompany
    \/ DeduplicateAndExport
    \/ EndRun

SpecPipeline == PipelineInit /\ [][PipelineNext]_vars

(***************************************************************************)
(* SpecCountry: one call of _extract_country_from_profile                  *)
(***************************************************************************)
CountryInit ==
    /\ custom_domains = {}
    /\ ClIdle /\ ExIdle /\ TrIdle /\ PlIdle /\ ExtIdle
    /\ co_pc = "start"
    /\ profile_url \in ProfileUrls
    /\ co_page = ProfilePage(<<>>, <<>>, <<>>, <<>>, <<>>)
    /\ co_k = 1
    /\ found_countries = <<>>
    /\ consulted = <<>>
    /\ co_result = NoCountry

\* lines 510-518: the fetch; no page and an exception return ""
FetchProfile ==
    /\ co_pc = "start"
    /\ \E out \in ProfileOutcomes :
          /\ co_page' = out.page
          /\ IF out.kind = "soup"
             THEN /\ co_pc' = "method"
                  /\ UNCHANGED co_result
             ELSE /\ co_pc' = "returned"
                  /\ co_result' = NoCountry
    /\ UNCHANGED <<custom_domains, ext_vars, cl_vars, ex_vars, tr_vars, pl_vars, profile_url, co_k,
                   found_countries, consulted>>

\* one source of the cascade (lines 520-525 and 628-696): source 1 always,
\* sources 2..6 under "if not found_countries"; raises: the source raises
\* outside its helper's own handler and the call returns ""
Source(k, raises) ==
    /\ co_pc = "method"
    /\ co_k = k
    /\ IF k = 1 \/ ShouldConsult(found_countries)
       THEN /\ consulted' = Append(consulted, k)
            /\ IF raises
               THEN /\ co_pc' = "returned"
                    /\ co_result' = NoCountry
                    /\ UNCHANGED <<found_countries, co_k>>
               ELSE /\ found_countries' =
                           found_countries \o MethodFinding(k, profile_url, co_page)
                    /\ co_k' = k + 1
                    /\ UNCHANGED <<co_pc, co_result>>
       ELSE /\ co_k' = k + 1
            /\ UNCHANGED <<consulted, found_countries, co_pc, co_result>>
    /\ UNCHANGED <<custom_domains, ext_vars, cl_vars, ex_vars, tr_vars, pl_vars, profile_url, co_page>>

\* lines 520-525
EuropagesPattern == Source(1, FALSE)

\* lines 628-658
LocationSelectors == Source(2, FALSE)

\* lines 660-665
UrlLocale == Source(3, FALSE)

\* lines 667-672
StructuredData == Source(4, FALSE)

\* lines 674-679
MetaTags == Source(5, FALSE)

\* lines 681-688; soup.get_text() is called outside any inner handler
FullText == \E raises \in BOOLEAN : Source(6, raises)

\* lines 690-713: the entries are ranked and the first one's country returned
ReturnCountry ==
    /\ co_pc = "method"
    /\ co_k = Methods + 1
    /\ co_result' = BestCountry(found_countries)
    /\ co_pc' = "returned"
    /\ UNCHANGED <<custom_domains, ext_vars, cl_vars, ex_vars, tr_vars, pl_vars, profile_url, co_page,
                   co_k, found_countries, consulted>>

CountryNext ==
    \/ FetchProfile
    \/ EuropagesPattern
    \/ LocationSelectors
    \/ UrlLocale
    \/ StructuredData
    \/ MetaTags
    \/ FullText
    \/ ReturnCountry

SpecCountry == CountryInit /\ [][CountryNext]_vars

(***************************************************************************)
(* SpecFetch: calls of get_page on one WebScrapingEngine                   *)
(***************************************************************************)
\* the URLs the callers pass to get_page
FetchUrls == { DirectoryUrl, Url(Origin, <<>>), Url(Origin, <<"/", "c", "o", "n", "t", "a", "c", "t">>) }

\* the exceptions a transport raises: session.get and raise_for_status of
\* _get_page_requests, driver.get and the wait of _get_page_selenium
RequestsErrors == {"ConnectionError", "HTTPError"}
SeleniumErrors(wait) ==
    {"WebDriverException"} \cup (IF wait THEN {"InvalidSelectorException"} ELSE {})

\* __init__ and _setup_selenium: without Selenium no driver; with it the
\* driver is set, or Chrome fails to start, or it starts and
\* set_page_load_timeout raises (use_selenium is withdrawn, the driver stays)
FetchInit ==
    /\ custom_domains = {}
    /\ ClIdle /\ ExIdle /\ TrIdle /\ PlIdle /\ CoIdle /\ MaIdle /\ LateIdle
    /\ \E built \in {<<FALSE, FALSE>>, <<TRUE, TRUE>>, <<FALSE, TRUE>>} :
          /\ use_selenium = built[1]
          /\ driver = built[2]
    /\ fe_pc = "idle"
    /\ fe_url = NoWebsite
    /\ wait_for_element = FALSE
    /\ fe_attempts = <<>>
    /\ fe_errors = <<>>
    /\ fe_result = "pending"

\* get_page with every exception handler removed after the first one
OnFetchErrorGiveUp(pc) == "returned"

\* lines 101-109: where get_page goes when the transport at pc raises: from
\* the configured transport to the requests fallback, from the fallback to
\* "return None"
OnFetchError(pc) == IF pc = "fallback" THEN "returned" ELSE "fallback"

\* lines 95-100: a call of get_page picks the transport
GetPage ==
    /\ fe_pc \in {"idle", "returned"}
    /\ \E url \in FetchUrls, wait \in BOOLEAN :
          /\ fe_url' = url
          /\ wait_for_element' = wait
    /\ fe_pc' = IF use_selenium /\ driver THEN "selenium" ELSE "requests"
    /\ fe_attempts' = <<>>
    /\ fe_errors' = <<>>
    /\ fe_result' = "pending"
    /\ UNCHANGED <<custom_domains, cl_vars, ex_vars, tr_vars, pl_vars, co_vars, ma_vars, late_vars,
                   use_selenium, driver>>

\* one run of a transport from position pc: the fetch is attempted; the
\* page is returned, or the exception reaches the handler of get_page
Transport(pc, name, errors) ==
    /\ fe_pc = pc
    /\ fe_attempts' = Append(fe_attempts, [transport |-> name, url |-> fe_url])
    /\ \/ /\ fe_result' = "soup"
          /\ fe_pc' = "returned"
          /\ UNCHANGED fe_errors
       \/ \E e \in errors :
             /\ fe_errors' = Append(fe_errors, e)
             /\ fe_pc' = OnFetchError(pc)
             /\ fe_result' = IF fe_pc' = "returned" THEN "none" ELSE "pending"
    /\ UNCHANGED <<custom_domains, cl_vars, ex_vars, tr_vars, pl_vars, co_vars, ma_vars, late_vars,
                   use_selenium, driver, fe_url, wait_for_element>>

\* lines 135-171: _get_page_selenium; the consent click and a timeout of the
\* wait are handled inside, any other exception propagates
GetPageSelenium == Transport("selenium", "selenium", SeleniumErrors(wait_for_element))

\* lines 111-132 called at line 100
GetPageRequests == Transport("requests", "requests", RequestsErrors)

\* lines 111-132 called at line 106
RequestsFallback == Transport("fallback", "requests", RequestsErrors)

FetchNext == GetPage \/ GetPageSelenium \/ GetPageRequests \/ RequestsFallback

SpecFetch == FetchInit /\ [][FetchNext]_vars

(***************************************************************************)
(* SpecMain: main running run_pipeline for the sectors of directories      *)
(***************************************************************************)
\* directories, one configuration per sector in the order of the dict:
\* business_domain_keywords, whether a pagination_selector is given, and
\* max_pages
Directories ==
    << [business_domain_keywords |-> {}, pagination_selector |-> TRUE, max_pages |-> 2],
       [business_domain_keywords |-> {<<"y", "a", "h", "o", "o", ".", "c", "o", "m">>},
        pagination_selector |-> FALSE, max_pages |-> 1] >>

\* limit_companies=20 of line 350
MainLimit == [given |-> TRUE, n |-> 20]

\* lines 278-340: logging is set up and the pipeline constructed with
\* use_selenium=True (Chrome started)
MainInit ==
    /\ custom_domains = {}
    /\ ClIdle /\ ExIdle /\ TrIdle /\ PlIdle /\ CoIdle /\ LateIdle
    /\ use_selenium = TRUE
    /\ driver = TRUE
    /\ fe_pc = "idle"
    /\ fe_url = NoWebsite
    /\ wait_for_element = FALSE
    /\ fe_attempts = <<>>
    /\ fe_errors = <<>>
    /\ fe_result = "pending"
    /\ ma_pc = "sectors"
    /\ sector = 1
    /\ ma_log = <<>>

\* lines 342-350 and 96-108: the loop calls run_pipeline for the sector
RunSector ==
    /\ ma_pc = "sectors"
    /\ pl_pc = "idle"
    /\ LET config == Directories[sector]
       IN  /\ custom_domains' = config.business_domain_keywords
           /\ BeginTraversal(config.pagination_selector, config.max_pages)
    /\ limit_companies' = MainLimit
    /\ pl_pc' = "links"
    /\ pl_companies' = <<>>
    /\ pl_i' = 0
    /\ companies_with_contacts' = <<>>
    /\ pl_raised' = {}
    /\ exported_links' = NotExported
    /\ exported_emails' = NotExported
    /\ ma_pc' = "running"
    /\ UNCHANGED <<cl_vars, ex_vars, co_vars, fe_vars, late_vars, sector, ma_log>>

\* run_pipeline, lines 192-194: an exception raised inside the try is logged
\* and raised again; the frames of run_pipeline's callees are gone
PipelineFails ==
    /\ pl_pc \in {"links", "contacts"}
    /\ pl_pc' = "failed"
    /\ tr_pc' = "idle"
    /\ pagination_selector' = FALSE
    /\ max_pages' = 0
    /\ companies' = <<>>
    /\ current_url' = DirectoryUrl
    /\ current_page' = 0
    /\ tr_skipped' = FALSE
    /\ tr_soup' = NoSoup
    /\ tr_fetches' = 0
    /\ UNCHANGED <<custom_domains, ext_vars, cl_vars, ex_vars, co_vars, seen_urls, tr_calls,
                   limit_companies, pl_companies, pl_i, companies_with_contacts, pl_raised,
                   exported_links, exported_emails>>

\* main with a handler that leaves the loop
NextSectorAbort(k, outcome) == IF outcome = "failed" THEN Len(Directories) + 1 ELSE k + 1

\* the for loop of line 342: the sector after sector k, however k ended
NextSector(k, outcome) == k + 1

\* lines 352-359: run_pipeline has ended (returned: "completed"; raised, and
\* the handler of line 354 logged it: "failed"); after the pause the loop
\* takes the next sector, or main prints the summary
SectorEnds(pc, outcome) ==
    /\ ma_pc = "running"
    /\ pl_pc = pc
    /\ ma_log' = Append(ma_log, [sector |-> sector, outcome |-> outcome])
    /\ sector' = NextSector(sector, outcome)
    /\ ma_pc' = IF sector' <= Len(Directories) THEN "sectors" ELSE "done"
    /\ pl_pc' = "idle"
    /\ limit_companies' = NoLimit
    /\ pl_companies' = <<>>
    /\ pl_i' = 0
    /\ companies_with_contacts' = <<>>
    /\ pl_raised' = {}
    /\ exported_links' = NotExported
    /\ exported_emails' = NotExported
    /\ UNCHANGED <<custom_domains, cl_vars, ex_vars, tr_vars, co_vars, fe_vars, late_vars>>

\* line 352
SectorCompleted == SectorEnds("finished", "completed")

\* lines 354-355
SectorFailed == SectorEnds("failed", "failed")

MainNext ==
    \/ RunSector
    \/ VisitPage
    \/ ResolveWebsites
    \/ ProcessCompany
    \/ DeduplicateAndExport
    \/ PipelineFails
    \/ SectorCompleted
    \/ SectorFailed

SpecMain == MainInit /\ [][MainNext]_vars


(***************************************************************************)
(* SpecWebsite: extract_website_urls on one company, the call of           *)
(* _extract_website_from_profile in steps                                  *)
(***************************************************************************)
WebsiteInit ==
    /\ custom_domains = {}
    /\ ClIdle /\ ExIdle /\ TrIdle /\ PlIdle /\ CoIdle /\ FeIdle /\ MaIdle /\ ThIdle /\ MoreIdle
    /\ ws_pc = "start"
    /\ ws_out = [kind |-> "none", page |-> <<>>]
    /\ ws_k = 0
    /\ ws_result = NoneValue
    /\ ws_website = NoneValue

\* lines 472-475 and 496-498: the fetch; no page returns None, and so does
\* an exception raised anywhere in the try
FetchWebsiteProfile ==
    /\ ws_pc = "start"
    /\ \E out \in WebsiteOutcomes :
          /\ ws_out' = out
          /\ ws_pc' = IF out.kind = "soup" THEN "button" ELSE "returned"
    /\ ws_result' = NoneValue
    /\ UNCHANGED <<custom_domains, cl_vars, ex_vars, tr_vars, pl_vars, co_vars, fe_vars,
                   ma_vars, th_vars, more_vars, ws_k, ws_website>>

\* lines 477-484: the website button, returned if its href is valid
WebsiteButton ==
    /\ ws_pc = "button"
    /\ LET website_button == SelectWebsiteButton(ws_out.page, 1)
       IN  IF /\ website_button # 0
              /\ Truthy(ws_out.page[website_button].href)
              /\ IsValidWebsiteUrl(ws_out.page[website_button].href)
           THEN /\ ws_result' = ws_out.page[website_button].href
                /\ ws_pc' = "returned"
                /\ UNCHANGED ws_k
           ELSE /\ ws_pc' = "fallback"
                /\ ws_k' = 1
                /\ UNCHANGED ws_result
    /\ UNCHANGED <<custom_domains, cl_vars, ex_vars, tr_vars, pl_vars, co_vars, fe_vars,
                   ma_vars, th_vars, more_vars, ws_out, ws_website>>

\* lines 487-494: one iteration of the loop over the external links, or its
\* end with "return None"
FallbackLink ==
    /\ ws_pc = "fallback"
    /\ LET external_links == ExternalLinks(ws_out.page)
       IN  IF ws_k > Len(external_links)
           THEN /\ ws_result' = NoneValue
                /\ ws_pc' = "returned"
                /\ UNCHANGED ws_k
           ELSE LET link == external_links[ws_k]
                IN  IF /\ HasWebsiteKeyword(link)
                       /\ Truthy(link.href)
                       /\ IsValidWebsiteUrl(link.href)
                    THEN /\ ws_result' = link.href
                         /\ ws_pc' = "returned"
                         /\ UNCHANGED ws_k
                    ELSE /\ ws_k' = ws_k + 1
                         /\ UNCHANGED <<ws_result, ws_pc>>
    /\ UNCHANGED <<custom_domains, cl_vars, ex_vars, tr_vars, pl_vars, co_vars, fe_vars,
                   ma_vars, th_vars, more_vars, ws_out, ws_website>>

\* extract_website_urls, lines 66-70: the assignment, and "" for a falsy
\* value
StoreWebsite ==
    /\ ws_pc = "returned"
    /\ ws_website' = IF Truthy(ws_result) THEN ws_result ELSE <<>>
    /\ ws_pc' = "stored"
    /\ UNCHANGED <<custom_domains, cl_vars, ex_vars, tr_vars, pl_vars, co_vars, fe_vars,
                   ma_vars, th_vars, more_vars, ws_out, ws_k, ws_result>>

WebsiteNext ==
    \/ FetchWebsiteProfile
    \/ WebsiteButton
    \/ FallbackLink
    \/ StoreWebsite

SpecWebsite == WebsiteInit /\ [][WebsiteNext]_vars

(***************************************************************************)
(* SpecThreads: NumThreads threads, each running _extract_links_from_page  *)
(* once on the same DirectoryParser, a step per statement                  *)
(***************************************************************************)
NumThreads == 2

Threads == 1..NumThreads

\* what soup.select(link_selector) gives a thread
ThreadLinks == { <<LAcme, LBolt>>, <<LBoltAbsolute, LAcmeRooted>>, <<LNoHref, LAcme>> }

\* line 109: full_url of the link thread t is at
FullUrl(t) == urljoin(DirectoryUrl, th_links[t][th_k[t]].href)

ThreadsInit ==
    /\ custom_domains = {}
    /\ ClIdle /\ ExIdle /\ TrIdle /\ PlIdle /\ CoIdle /\ FeIdle /\ MaIdle /\ WsIdle /\ MoreIdle
    /\ th_links \in [Threads -> ThreadLinks]
    /\ th_pc = [t \in Threads |-> "for"]
    /\ th_k = [t \in Threads |-> 1]
    /\ th_companies = [t \in Threads |-> <<>>]
    /\ seen_urls_lock = 0

ThreadFrame ==
    UNCHANGED <<custom_domains, cl_vars, ex_vars, pl_vars, co_vars, fe_vars, ma_vars, ws_vars, more_vars,
                tr_calls, tr_pc, pagination_selector, max_pages, companies, current_url,
                current_page, tr_skipped, tr_soup, tr_fetches, th_links>>

\* Lock.acquire returns at once whatever the state of the lock
CanAcquireUnlocked(lock) == TRUE

\* Lock.acquire blocks until the lock is unlocked
CanAcquire(lock) == lock = 0

\* lines 104-109: the head of the loop; the end of the list returns, a link
\* without href is passed over
ForLink(t) ==
    /\ th_pc[t] = "for"
    /\ IF th_k[t] > Len(th_links[t])
       THEN /\ th_pc' = [th_pc EXCEPT ![t] = "returned"]
            /\ UNCHANGED th_k
       ELSE LET link == th_links[t][th_k[t]]
            IN  IF link.href = NoHref \/ RawHref(link.href) = <<>>
                THEN /\ th_k' = [th_k EXCEPT ![t] = @ + 1]
                     /\ UNCHANGED th_pc
                ELSE /\ th_pc' = [th_pc EXCEPT ![t] = "with"]
                     /\ UNCHANGED th_k
    /\ UNCHANGED <<seen_urls, th_companies, seen_urls_lock>>
    /\ ThreadFrame

\* line 112: "with self.seen_urls_lock" is entered
AcquireLock(t) ==
    /\ th_pc[t] = "with"
    /\ CanAcquire(seen_urls_lock)
    /\ seen_urls_lock' = t
    /\ th_pc' = [th_pc EXCEPT ![t] = "test"]
    /\ UNCHANGED <<seen_urls, th_k, th_companies>>
    /\ ThreadFrame

\* lines 114-115: the membership test; "continue" leaves the with block,
\* which releases the lock
TestSeen(t) ==
    /\ th_pc[t] = "test"
    /\ IF FullUrl(t) \in seen_urls
       THEN /\ seen_urls_lock' = 0
            /\ th_k' = [th_k EXCEPT ![t] = @ + 1]
            /\ th_pc' = [th_pc EXCEPT ![t] = "for"]
       ELSE /\ th_pc' = [th_pc EXCEPT ![t] = "add"]
            /\ UNCHANGED <<seen_urls_lock, th_k>>
    /\ UNCHANGED <<seen_urls, th_companies>>
    /\ ThreadFrame

\* line 116: self.seen_urls.add(full_url)
AddSeen(t) ==
    /\ th_pc[t] = "add"
    /\ seen_urls' = seen_urls \cup {FullUrl(t)}
    /\ th_pc' = [th_pc EXCEPT ![t] = "exit"]
    /\ UNCHANGED <<th_k, th_companies, seen_urls_lock>>
    /\ ThreadFrame

\* the end of the with block releases the lock
ReleaseLock(t) ==
    /\ th_pc[t] = "exit"
    /\ seen_urls_lock' = 0
    /\ th_pc' = [th_pc EXCEPT ![t] = "append"]
    /\ UNCHANGED <<seen_urls, th_k, th_companies>>
    /\ ThreadFrame

\* lines 118-121: the name, and the stub appended to the local list
AppendStub(t) ==
    /\ th_pc[t] = "append"
    /\ th_companies' =
          [th_companies EXCEPT ![t] =
              Append(@, CompanyInfo(ExtractCompanyName(th_links[t][th_k[t]]), FullUrl(t)))]
    /\ th_k' = [th_k EXCEPT ![t] = @ + 1]
    /\ th_pc' = [th_pc EXCEPT ![t] = "for"]
    /\ UNCHANGED <<seen_urls, seen_urls_lock>>
    /\ ThreadFrame

ThreadsNext ==
    \E t \in Threads :
       \/ ForLink(t)
       \/ AcquireLock(t)
       \/ TestSeen(t)
       \/ AddSeen(t)
       \/ ReleaseLock(t)
       \/ AppendStub(t)

SpecThreads == ThreadsInit /\ [][ThreadsNext]_vars

(***************************************************************************)
(* SpecName: _extract_company_name on a link with an href, called from     *)
(* the loop of _extract_links_from_page                                    *)
(***************************************************************************)
\* the components of the specifications above
older_vars == <<custom_domains, cl_vars, ex_vars, tr_vars, pl_vars, co_vars, fe_vars, ma_vars,
                ws_vars, th_vars>>

OlderIdle ==
    /\ ClIdle /\ ExIdle /\ TrIdle /\ PlIdle /\ CoIdle /\ FeIdle /\ MaIdle /\ WsIdle /\ ThIdle

\* text, first span and nested elements of a link as get_text(strip=True)
\* gives them: the text of the link holds the text of its descendants
NameBodies ==
    { <<<<>>, <<>>, <<>>>>,
      <<<<>>, <<>>, << <<>> >>>>,
      <<<<"A">>, <<>>, <<>>>>,
      <<<<"A">>, <<"A">>, << <<"A">> >>>>,
      <<<<"A", "c", "m", "e">>, <<>>, <<>>>>,
      <<<<"A", "c", "m", "e">>, <<"A", "c", "m", "e">>, << <<"A", "c", "m", "e">> >>>>,
      <<<<"&", " ", "A", "c", "m", "e">>, <<"&">>, << <<>>, <<"&">>, <<"A", "c", "m", "e">> >>>> }

NameTitles == { <<>>, <<" ", "T", " ">>, <<" ", "T", "i", "t", "a", "n", " ", "G", "m", "b", "H">> }
NameArias == { <<>>, <<"A", "r", "i", "a", " ", "L", "t", "d">> }
NameHrefs == { Relative(<<"/", "x">>), Relative(<<"a", "c", "m", "e", "-", "9", ".", "h", "t", "m", "l">>), Relative(<<"/", "-", "1", "/", "b">>), Relative(<<"/", "C", "A", "N", "A", "R", "Y", "-", "I", "S", "L", "A", "N", "D", "_", "S", "L", "/", "0", "0", "0", "5", "-", "7", "6", ".", "h", "t", "m", "l">>),
               [origin |-> DirOrigin, text |-> <<"/", "f", "r", "/", "b", "o", "l", "t">>] }

\* the links with an href that link_selector can match
NameLinks ==
    { [href |-> h, text |-> b[1], span |-> b[2], nested |-> b[3], title |-> t, aria |-> a] :
         h \in NameHrefs, b \in NameBodies, t \in NameTitles, a \in NameArias }

NameInit ==
    /\ custom_domains = {}
    /\ OlderIdle /\ PgIdle /\ EnIdle
    /\ nm_pc = "link"
    /\ nm_link \in NameLinks
    /\ nm_stub = CompanyInfo(<<>>, NoUrl)

\* directory_parser.py lines 118-121: the name is extracted and the stub
\* built from it
NameStub ==
    /\ nm_pc = "link"
    /\ nm_stub' = CompanyInfo(ExtractCompanyName(nm_link), urljoin(DirectoryUrl, nm_link.href))
    /\ nm_pc' = "appended"
    /\ UNCHANGED <<older_vars, pg_vars, en_vars, nm_link>>

NameNext == NameStub

SpecName == NameInit /\ [][NameNext]_vars

(***************************************************************************)
(* SpecPage: one call of _extract_emails_from_single_page, a step per      *)
(* method                                                                  *)
(***************************************************************************)
\* what get_page and the methods do: no page, an exception in the fetch, or
\* a page, with an exception raised on reaching a raise point or without
SinglePageOutcomes ==
    { [kind |-> "none", page |-> PgEmpty, raise_at |-> 0],
      [kind |-> "error", page |-> PgEmpty, raise_at |-> 0] }
    \cup { [kind |-> "soup", page |-> p, raise_at |-> k] : p \in Pages, k \in RaisePoints }

PageInit ==
    /\ custom_domains \in CustomDomainSets
    /\ OlderIdle /\ NmIdle /\ EnIdle
    /\ pg_pc = "fetch"
    /\ pg_out \in SinglePageOutcomes
    /\ pg_ran = {}
    /\ found_emails = {}

\* one method of lines 264-291: an exception on reaching it ends the call in
\* the handler of lines 295-297, which returns found_emails as it is;
\* otherwise the method runs if it is due and its emails are added
Method(k, at, due, emails, then) ==
    /\ pg_pc = at
    /\ IF pg_out.raise_at = k
       THEN /\ pg_pc' = "returned"
            /\ UNCHANGED <<pg_ran, found_emails>>
       ELSE /\ pg_pc' = then
            /\ IF due
               THEN /\ found_emails' = found_emails \cup emails
                    /\ pg_ran' = pg_ran \cup {k}
               ELSE UNCHANGED <<pg_ran, found_emails>>
    /\ UNCHANGED <<older_vars, nm_vars, en_vars, pg_out>>

\* lines 260-262: the fetch; no page returns the empty set
FetchSinglePage ==
    /\ pg_pc = "fetch"
    /\ pg_pc' = IF pg_out.kind = "soup" THEN "mailto" ELSE "returned"
    /\ UNCHANGED <<older_vars, nm_vars, en_vars, pg_out, pg_ran, found_emails>>

\* the text method run whatever the mailto method found
TextMethodDueAlways(found) == TRUE

\* line 269: "if not found_emails"
TextMethodDue(found) == found = {}

\* lines 264-266
MethodMailto ==
    Method(1, "mailto", TRUE,
           ExtractEmailsFromMailtoLinks(pg_out.page.mailto, custom_domains), "text")

\* lines 268-271
MethodText ==
    Method(2, "text", TextMethodDue(found_emails),
           ExtractEmailsFromText(pg_out.page.text, custom_domains), "areas")

\* lines 273-286
MethodAreas ==
    Method(3, "areas", TRUE, ExtractEmailsFromAreas(pg_out.page.areas, custom_domains),
           "enhanced")

\* lines 288-293
MethodEnhanced ==
    Method(4, "enhanced", TRUE,
           ExtractEmailsWithEnhancedPatterns(pg_out.page.html, custom_domains), "returned")

PageNext ==
    \/ FetchSinglePage
    \/ MethodMailto
    \/ MethodText
    \/ MethodAreas
    \/ MethodEnhanced

SpecPage == PageInit /\ [][PageNext]_vars

(***************************************************************************)
(* SpecEngine: NumThreads threads, each calling get_page once on one       *)
(* WebScrapingEngine whose browser driver started; a step per statement of *)
(* _get_page_selenium                                                      *)
(***************************************************************************)
EngineInit ==
    /\ custom_domains = {}
    /\ ClIdle /\ ExIdle /\ TrIdle /\ PlIdle /\ CoIdle /\ MaIdle /\ WsIdle /\ ThIdle
    /\ NmIdle /\ PgIdle
    /\ use_selenium = TRUE
    /\ driver = TRUE
    /\ fe_pc = "idle"
    /\ fe_url = NoWebsite
    /\ wait_for_element = FALSE
    /\ fe_attempts = <<>>
    /\ fe_errors = <<>>
    /\ fe_result = "pending"
    /\ en_pc = [t \in Threads |-> "with"]
    /\ en_url \in [Threads -> FetchUrls]
    /\ en_doc = [t \in Threads |-> NoWebsite]
    /\ engine_lock = 0
    /\ driver_page = NoWebsite

EngineFrame ==
    UNCHANGED <<custom_domains, cl_vars, ex_vars, tr_vars, pl_vars, co_vars, fe_vars, ma_vars,
                ws_vars, th_vars, nm_vars, pg_vars, en_url>>

\* line 146: "with self.lock" is entered
EnterLock(t) ==
    /\ en_pc[t] = "with"
    /\ engine_lock = 0
    /\ engine_lock' = t
    /\ en_pc' = [en_pc EXCEPT ![t] = "sleep"]
    /\ UNCHANGED <<en_doc, driver_page>>
    /\ EngineFrame

\* line 147: the random sleep, which is all the with block holds; the lock
\* is released at its end
SleepAndLeaveLock(t) ==
    /\ en_pc[t] = "sleep"
    /\ engine_lock' = 0
    /\ en_pc' = [en_pc EXCEPT ![t] = "get"]
    /\ UNCHANGED <<en_doc, driver_page>>
    /\ EngineFrame

\* line 149: self.driver.get(url): the one browser navigates
DriverGet(t) ==
    /\ en_pc[t] = "get"
    /\ driver_page' = en_url[t]
    /\ en_pc' = [en_pc EXCEPT ![t] = "settle"]
    /\ UNCHANGED <<en_doc, engine_lock>>
    /\ EngineFrame

\* lines 151-167: the cookie consent and the wait for the element, which
\* leave the browser on the document it shows
ConsentAndWait(t) ==
    /\ en_pc[t] = "settle"
    /\ en_pc' = [en_pc EXCEPT ![t] = "source"]
    /\ UNCHANGED <<en_doc, engine_lock, driver_page>>
    /\ EngineFrame

\* line 170: BeautifulSoup(self.driver.page_source, ...) is returned
ReadPageSource(t) ==
    /\ en_pc[t] = "source"
    /\ en_doc' = [en_doc EXCEPT ![t] = driver_page]
    /\ en_pc' = [en_pc EXCEPT ![t] = "returned"]
    /\ UNCHANGED <<engine_lock, driver_page>>
    /\ EngineFrame

EngineNext ==
    \E t \in Threads :
       \/ EnterLock(t)
       \/ SleepAndLeaveLock(t)
       \/ DriverGet(t)
       \/ ConsentAndWait(t)
       \/ ReadPageSource(t)

SpecEngine == EngineInit /\ [][EngineNext]_vars
(***************************************************************************)
(* Claims about the cleaner                                                *)
(***************************************************************************)

\* C7: a candidate whose domain is a personal provider and is not in the
\* sector's custom business domains is rejected by _clean_extracted_email.
C7_PersonalRejected ==
    (/\ cl_pc \in {"cleaned", "recleaned"}
     /\ FirstAt(NormalizeEmail(cl_email)) # 0
     /\ DomainOf(NormalizeEmail(cl_email)) \in personal_domains \ custom_domains)
    => cl_result = NoEmail

\* the candidate passes every other step and is rejected for its domain
C7_Witness ==
    /\ cl_pc = "cleaned"
    /\ StrictMatch(NormalizeEmail(cl_email))
    /\ is_valid_email(NormalizeEmail(cl_email))
    /\ ~IsSpam(NormalizeEmail(cl_email))
    /\ DomainOf(NormalizeEmail(cl_email)) \in personal_domains \ custom_domains
    /\ cl_result = NoEmail

\* the candidate with every &#64; written as @
AtForm(email) == Replace(email, HtmlAt, <<"@">>)

\* C8: a candidate that has &#64; in place of @, and whose @-form is a
\* valid, business, non-spam address as it stands, is cleaned to that @-form.
C8_EntityDecoded ==
    (/\ cl_pc \in {"cleaned", "recleaned"}
     /\ Contains(cl_email, HtmlAt)
     /\ StrictMatch(AtForm(cl_email))
     /\ is_valid_email(AtForm(cl_email))
     /\ is_business_email(AtForm(cl_email), custom_domains)
     /\ ~IsSpam(AtForm(cl_email)))
    => cl_result = AtForm(cl_email)

C8_Witness ==
    /\ cl_pc = "cleaned"
    /\ Contains(cl_email, HtmlAt)
    /\ cl_result = AtForm(cl_email)
    /\ cl_result # NoEmail

\* C9: cleaning an email the cleaner returned gives that email back.
C9_Idempotent == cl_pc = "recleaned" => cl_again = cl_result

\* the first call really changed the candidate
C9_Witness ==
    /\ cl_pc = "recleaned"
    /\ cl_result # cl_email
    /\ cl_again = cl_result

(***************************************************************************)
(* Claims about contact discovery and multi-page extraction                *)
(***************************************************************************)

\* C2: whatever the homepage fetch gives (page, no page, exception),
\* _discover_contact_pages returns at most 5 (label, url) entries.
C2_AtMostFivePages == ex_pc \in {"pages", "done"} => Len(contact_pages) <= MaxContactPages

\* C3 as stated: when the candidate pages hold more than 5 distinct valid
\* emails, the returned list has exactly 5 entries and no page is fetched
\* once 5 emails are accumulated.
C3_ExactlyFive ==
    (ex_pc = "done" /\ Cardinality(ex_held) > EnoughEmails)
    => /\ Len(final_emails) = EnoughEmails
       /\ ~ex_late

\* C3 amended: no page is fetched once at least 5 emails are accumulated;
\* the call then returns all of the accumulated emails, 5 or more, and pages
\* are left unfetched only when that threshold was reached.
C3_StopsAtThreshold ==
    /\ ~ex_late
    /\ Cardinality(all_emails) >= EnoughEmails
         => /\ ex_pc = "done"
            /\ Len(final_emails) = Cardinality(all_emails)
    /\ (ex_pc = "done" /\ ex_i < Len(pages_to_check))
         => Len(final_emails) >= EnoughEmails

\* more than 5 emails returned while candidate pages remain unfetched
C3_Witness ==
    /\ ex_pc = "done"
    /\ Len(final_emails) > EnoughEmails
    /\ ex_i < Len(pages_to_check)

\* strictly ascending: sorted and free of duplicates
StrictlyAscending(s) == \A k \in 1..(Len(s) - 1) : StrLess(s[k], s[k + 1])

\* C10: the list _extract_emails_from_website returns is sorted in ascending
\* order and holds no email twice.
C10_SortedUnique == ex_pc \in {"done", "critical"} => StrictlyAscending(final_emails)

\* emails of several pages, found out of order, are returned in order
C10_Witness ==
    /\ ex_pc = "done"
    /\ Len(final_emails) >= 3
    /\ ex_i >= 2
    /\ StrictlyAscending(final_emails)

(***************************************************************************)
(* Claims about the directory traverser                                    *)
(***************************************************************************)

\* C1: the list that a call of extract_company_links has built, and returns,
\* holds no absolute profile URL twice, whatever pages the call visited.
C1_UniqueProfileUrls ==
    \A i, j \in DOMAIN companies : i # j => companies[i].url # companies[j].url

\* the call has returned several stubs from several pages and skipped an href
\* that resolved to a URL already seen
C1_Witness ==
    /\ tr_pc = "returned"
    /\ tr_skipped
    /\ current_page >= 2
    /\ Len(companies) >= 3

(***************************************************************************)
(* Claims about the pipeline                                               *)
(***************************************************************************)
Accepted(email, custom) ==
    /\ StrictMatch(email)
    /\ is_valid_email(email)
    /\ is_business_email(email, custom)
    /\ ~IsSpam(email)

\* C4: in every state of a pipeline run every email in the emails of a
\* company matches the strict pattern, passes the syntax validator, has a
\* business domain under the sector's custom domains and has no spam
\* substring.
C4_StoredEmailsAccepted ==
    \A i \in DOMAIN pl_companies :
        \A e \in Range(pl_companies[i].emails) : Accepted(e, custom_domains)

\* a company holds several emails, one of them at a personal provider that
\* the sector's custom domains admit
C4_Witness ==
    /\ pl_pc = "contacts"
    /\ \E i \in DOMAIN pl_companies :
          /\ Len(pl_companies[i].emails) >= 3
          /\ \E e \in Range(pl_companies[i].emails) :
                DomainOf(e) \in personal_domains \cap custom_domains

EmailsOf(k) == pl_companies[companies_with_contacts[k]].emails

\* C5: after deduplicate_emails no email is in the emails of two companies
\* of companies_with_contacts, and none is twice in the emails of one.
C5_NoEmailTwice ==
    pl_pc = "finished" =>
        \A a, b \in DOMAIN companies_with_contacts :
            \A x \in DOMAIN EmailsOf(a), y \in DOMAIN EmailsOf(b) :
                (a # b \/ x # y) => EmailsOf(a)[x] # EmailsOf(b)[y]

\* the pass emptied one company whose emails an earlier company had, and
\* left several emails with another
C5_Witness ==
    /\ pl_pc = "finished"
    /\ \E a, b \in DOMAIN companies_with_contacts :
          /\ a < b
          /\ Len(EmailsOf(a)) >= 2
          /\ EmailsOf(b) = <<>>

(***************************************************************************)
(* Claims about the country cascade                                        *)
(***************************************************************************)
Yields(k) == MethodFinding(k, profile_url, co_page) # <<>>

\* C6: the sources are consulted in the order 1..6 without a gap, none
\* after a source that yielded a country, and the country returned is the
\* one the last source consulted yielded.
C6_FirstSuccessWins ==
    /\ consulted = [i \in 1..Len(consulted) |-> i]
    /\ \A i \in 1..(Len(consulted) - 1) : ~Yields(i)
    /\ (co_pc = "returned" /\ co_k = Methods + 1 /\ consulted # <<>> /\ Yields(Len(consulted)))
           => co_result = MethodFinding(Len(consulted), profile_url, co_page)[1].country

\* the third source yielded the country returned while a later source held
\* another country
C6_Witness ==
    /\ co_pc = "returned"
    /\ consulted = <<1, 2, 3>>
    /\ co_result # NoCountry
    /\ \E k \in 4..Methods :
          /\ Yields(k)
          /\ MethodFinding(k, profile_url, co_page)[1].country # co_result

(***************************************************************************)
(* Claims about the fetch transport                                        *)
(***************************************************************************)

\* C11 as stated: a call of get_page attempts to fetch its url at most once,
\* and a failure is reported to the caller without a second attempt.
C11_NeverRetried == Len(fe_attempts) <= 1

\* C11 as amended: a call of get_page makes at most two fetch attempts, all
\* of its own url: the configured transport once and, only after that one
\* raised, the requests transport once; "page unavailable" (None) is returned
\* exactly when both attempts raised, and then no third attempt is made.
C11_AtMostOneFallback ==
    /\ Len(fe_attempts) <= 2
    /\ \A i \in DOMAIN fe_attempts : fe_attempts[i].url = fe_url
    /\ Len(fe_attempts) = 2 => fe_attempts[2].transport = "requests"
    /\ Len(fe_errors) <= Len(fe_attempts)
    /\ Len(fe_attempts) = 2 => Len(fe_errors) >= 1
    /\ fe_pc = "returned" =>
          /\ fe_attempts # <<>>
          /\ (fe_result = "none") = (Len(fe_errors) = 2)
          /\ (fe_result = "soup") = (Len(fe_errors) = Len(fe_attempts) - 1)

\* the requests transport failed twice on the same url within one call
C11_Witness ==
    /\ fe_pc = "returned"
    /\ fe_result = "none"
    /\ ~use_selenium
    /\ fe_attempts = << [transport |-> "requests", url |-> fe_url],
                        [transport |-> "requests", url |-> fe_url] >>
    /\ fe_errors = <<"ConnectionError", "HTTPError">>

(***************************************************************************)
(* Claims about exceptions during extraction                               *)
(***************************************************************************)

\* this step loops over a candidate page and an exception is raised while
\* the page is fetched or parsed: inside the four methods, or up to the
\* handler of the loop
RaisedOnPage == ex_i' = ex_i + 1 /\ ex_raised' # NoPage

\* after the step the loop is at the next candidate page, if there is one
WentOn == ex_pc' = "pages" \/ ex_i' = Len(pages_to_check)

\* C12 as stated: a candidate page on which an exception is raised
\* contributes no email to the accumulated set, and the loop goes on to the
\* next candidate page.
C12_ZeroOnException == [][RaisedOnPage => (all_emails' = all_emails /\ WentOn)]_vars

\* what methods 1..k-1 find on a page when method k raises
FoundBefore(k, page, custom) ==
    LET mailto == ExtractEmailsFromMailtoLinks(page.mailto, custom)
    IN  (IF k > 1 THEN mailto ELSE {})
        \cup (IF k > 2 /\ mailto = {} THEN ExtractEmailsFromText(page.text, custom) ELSE {})
        \cup (IF k > 3 THEN ExtractEmailsFromAreas(page.areas, custom) ELSE {})

\* C12 as amended: a page on which method k raises contributes exactly the
\* emails methods 1..k-1 found; an exception the loop's own handler catches
\* contributes nothing; in both cases the loop goes on to the next candidate
\* page unless the accumulated set has reached 5 emails.
C12_PartialOnException ==
    [][RaisedOnPage =>
          /\ ex_raised'.kind = "error" => all_emails' = all_emails
          /\ ex_raised'.kind = "soup" =>
                all_emails' = all_emails
                                 \cup FoundBefore(ex_raised'.raise_at, ex_raised'.page,
                                                  custom_domains)
          /\ WentOn \/ Enough(all_emails')]_vars

\* method 4 raised on the homepage, whose mailto links had given an email,
\* and the loop went on with that email accumulated
C12_Witness ==
    /\ ex_i = 1
    /\ ex_raised.kind = "soup"
    /\ ex_raised.raise_at = 4
    /\ all_emails # {}
    /\ ex_pc = "pages"

(***************************************************************************)
(* Claims about failures in a pipeline run                                 *)
(***************************************************************************)

\* C13: a company whose email extraction raised has an empty emails list and
\* is not among the companies with contacts; the loop over the companies is
\* not left, so that every company of the sector is processed, in order,
\* before the emails are deduplicated and exported.
C13_CompanyErrorContained ==
    /\ \A k \in pl_raised :
          /\ k \in 1..pl_i
          /\ pl_companies[k].emails = <<>>
          /\ \A j \in DOMAIN companies_with_contacts : companies_with_contacts[j] # k
    /\ pl_raised # {} =>
          /\ pl_pc \in {"contacts", "finished"}
          /\ pl_pc = "finished" => pl_i = Len(pl_companies)

\* the extraction of the first company raised, and the second company was
\* processed after it and has contacts
C13_Witness ==
    /\ pl_pc = "finished"
    /\ 1 \in pl_raised
    /\ pl_companies[1].website_url # NoWebsite
    /\ companies_with_contacts = <<2>>
    /\ pl_companies[2].emails # <<>>

\* C14: main runs run_pipeline for the sectors in the configured order, and
\* a sector whose run_pipeline raised is followed by the next sector like one
\* that completed: when main is done, every sector has been run.
C14_LaterSectorsRun ==
    /\ \A k \in DOMAIN ma_log : ma_log[k].sector = k
    /\ ma_pc \in {"sectors", "running"} => sector = Len(ma_log) + 1
    /\ ma_pc = "done" => Len(ma_log) = Len(Directories)

\* the first sector failed and the second one was run to completion
C14_Witness ==
    /\ ma_pc = "done"
    /\ ma_log[1] = [sector |-> 1, outcome |-> "failed"]
    /\ ma_log[2] = [sector |-> 2, outcome |-> "completed"]

\* C15: when run_pipeline has ended, by returning or by raising, the
\* records enriched with websites have been handed to the links export and
\* the records enriched with emails to the emails export.
C15_PartialResultsExported ==
    pl_pc \in {"finished", "failed"} =>
       /\ pl_companies # <<>> => exported_links = [k \in DOMAIN pl_companies |-> k]
       /\ companies_with_contacts # <<>> => exported_emails = companies_with_contacts

(***************************************************************************)
(* Claims about the traversal of the directory                             *)
(***************************************************************************)

\* this step fetches a directory page
Fetches == tr_pc = "loop" /\ tr_fetches' = tr_fetches + 1

\* the URLs of the stub records this step appends to companies
NewStubUrls == [k \in 1..(Len(companies') - Len(companies)) |->
                   companies'[Len(companies) + k].url]

\* C16: when the fetch fails the call returns at once with the list as it
\* was; when a page is fetched on which pagination would go on but no next
\* link is found, or the next link resolves to current_url, the call returns
\* at once with the list extended by the stubs of that page (one for each
\* URL of the page not seen before); the list is never changed otherwise.
C16_StopsWithCollected ==
    [][Fetches =>
          /\ SubSeq(companies', 1, Len(companies)) = companies
          /\ Range(NewStubUrls) = seen_urls' \ seen_urls
          /\ Len(NewStubUrls) = Cardinality(seen_urls' \ seen_urls)
          /\ tr_soup'.kind = "none" =>
                /\ tr_pc' = "returned"
                /\ companies' = companies
                /\ seen_urls' = seen_urls
          /\ (/\ tr_soup'.kind = "soup"
              /\ pagination_selector
              /\ current_page < max_pages
              /\ FindNextPage(tr_soup'.page, current_url) \in {NoUrl, current_url}) =>
                /\ tr_pc' = "returned"
                /\ Range(NewStubUrls) =
                      { urljoin(current_url, tr_soup'.page.links[k].href) :
                          k \in { j \in DOMAIN tr_soup'.page.links :
                                    /\ tr_soup'.page.links[j].href # NoHref
                                    /\ RawHref(tr_soup'.page.links[j].href) # <<>> } }
                        \ seen_urls]_vars

\* the second page points back to itself and the call returned the stubs of
\* both pages with a page of the budget left
C16_Witness ==
    /\ tr_pc = "returned"
    /\ tr_fetches = 2
    /\ current_page < max_pages
    /\ pagination_selector
    /\ tr_soup.kind = "soup"
    /\ FindNextPage(tr_soup.page, current_url) = current_url
    /\ Len(companies) >= 3

\* C17 as stated: a call fetches at most max_pages pages and ends, and
\* without a pagination selector it fetches exactly one page.
C17_ExactlyOneWithoutPagination ==
    /\ tr_fetches <= max_pages
    /\ (tr_pc = "returned" /\ ~pagination_selector) => tr_fetches = 1

\* C17 as amended: every iteration of the loop fetches one page and the
\* loop is left after at most max_pages iterations, whatever the pages link
\* to; without a pagination selector the call fetches exactly one page when
\* max_pages >= 1, and none when max_pages < 1.
C17_AtMostMaxPages ==
    /\ tr_fetches <= max_pages
    /\ tr_pc = "loop" => (tr_fetches = current_page - 1 /\ tr_fetches < max_pages)
    /\ (tr_pc = "returned" /\ ~pagination_selector) =>
          tr_fetches = (IF max_pages >= 1 THEN 1 ELSE 0)

\* a cycle through two URLs: the call is back at the start URL on its third
\* page and has used up max_pages
C17_Witness ==
    /\ tr_pc = "returned"
    /\ pagination_selector
    /\ tr_fetches = max_pages
    /\ max_pages >= 3
    /\ current_url = DirectoryUrl
    /\ tr_soup.kind = "soup"

(***************************************************************************)
(* Claims about contact-page discovery                                     *)
(***************************************************************************)

\* the URLs of the entries _discover_contact_pages returned
DiscoveredUrls == [k \in DOMAIN contact_pages |-> contact_pages[k][2]]

\* the URL the k-th path pattern gives for the website root of the model
PatternUrl(k) == Url(Origin, contact_page_patterns[k])

\* the homepage was fetched and none of its links is a contact link
NoContactLink ==
    /\ ex_home.kind = "soup"
    /\ \A k \in DOMAIN ex_home.anchors :
          HrefSkipped(ex_home.anchors[k].href) \/ ~IsContactLink(ex_home.anchors[k])

\* C18: for a homepage without contact link the result is the URLs of the
\* first 6 path patterns under the root, in pattern order, cut to 5 entries;
\* when the homepage fetch fails every entry of the result is the URL of one
\* of the first 6 path patterns.
C18_PatternFallback ==
    ex_pc \in {"pages", "done"} =>
       /\ NoContactLink => DiscoveredUrls = [k \in 1..MaxContactPages |-> PatternUrl(k)]
       /\ ex_home.kind = "none" =>
             /\ contact_pages # <<>>
             /\ \A k \in DOMAIN contact_pages :
                   \E n \in 1..TopPatterns : DiscoveredUrls[k] = PatternUrl(n)

\* a root given with a trailing slash whose homepage has links, none of them
\* a contact link
C18_Witness ==
    /\ ex_pc = "pages"
    /\ NoContactLink
    /\ ex_home.anchors # <<>>
    /\ website_url = Url(Origin, <<"/">>)
    /\ Len(contact_pages) = MaxContactPages

(***************************************************************************)
(* Claims about the website of a profile                                   *)
(***************************************************************************)

\* url starts with http:// or https://
HasHttpScheme(url) == StartsWith(url, HttpPrefix) \/ StartsWith(url, HttpsPrefix)

\* an entry of the blocklist occurs in url, whatever the case of its letters
OnBlocklist(url) == \E domain \in unwanted_domains : Contains(Lower(url), domain)

\* the hrefs _extract_website_from_profile considers on a page: that of the
\* website button and those of the external links with a keyword in the text
CandidateHrefs(page) ==
    { page[k].href : k \in { n \in DOMAIN page : n = SelectWebsiteButton(page, 1) } }
    \cup { page[k].href : k \in { n \in DOMAIN page :
                                    /\ page[n].href # NoneValue
                                    /\ StartsWith(page[n].href, <<"h", "t", "t", "p">>)
                                    /\ HasWebsiteKeyword(page[n]) } }

\* C19: after extract_website_urls the website_url of the company is "" or
\* starts with http:// or https:// and holds no blocklist entry; it is ""
\* when the profile fetch failed and when no candidate href passes validation.
C19_WebsiteValidOrEmpty ==
    ws_pc = "stored" =>
       /\ ws_website = <<>> \/ (HasHttpScheme(ws_website) /\ ~OnBlocklist(ws_website))
       /\ ws_out.kind # "soup" => ws_website = <<>>
       /\ (\A href \in CandidateHrefs(ws_out.page) :
              href = NoneValue \/ ~HasHttpScheme(href) \/ OnBlocklist(href))
          => ws_website = <<>>

\* a page whose button points to a file-sharing host written with a capital
\* and whose second link is a valid external link with a keyword
C19_Witness ==
    /\ ws_pc = "stored"
    /\ ws_out.kind = "soup"
    /\ Len(ws_out.page) = 2
    /\ ws_out.page[1] = ProfileAnchor(HrTransfer, <<>>, TRUE)
    /\ ws_website = HrGood

(***************************************************************************)
(* Claims about seen_urls under threads                                    *)
(***************************************************************************)

\* the stubs for url in the local lists of all threads, as (thread, index)
StubsFor(url) ==
    UNION { { <<t, k>> : k \in { n \in DOMAIN th_companies[t] : th_companies[t][n].url = url } } :
               t \in Threads }

\* the profile URLs the links of the threads' pages point to
LinkedUrls ==
    UNION { { urljoin(DirectoryUrl, th_links[t][k].href) :
                 k \in { n \in DOMAIN th_links[t] :
                           /\ th_links[t][n].href # NoHref
                           /\ RawHref(th_links[t][n].href) # <<>> } } :
               t \in Threads }

\* C20: the test and the insert on seen_urls are one critical section: at
\* most one thread is between acquiring and releasing seen_urls_lock, no
\* URL ever has two stubs, and when all threads have returned every URL
\* their pages link to has exactly one stub, emitted by one thread.
C20_OneStubPerUrl ==
    /\ \A t, u \in Threads :
          (th_pc[t] \in {"test", "add", "exit"} /\ th_pc[u] \in {"test", "add", "exit"}) => t = u
    /\ \A url \in LinkedUrls : Cardinality(StubsFor(url)) <= 1
    /\ (\A t \in Threads : th_pc[t] = "returned") =>
          \A url \in LinkedUrls : Cardinality(StubsFor(url)) = 1

\* two threads whose pages link to the same two profiles have returned, and
\* each of them won one of the two URLs
C20_Witness ==
    /\ \A t \in Threads : th_pc[t] = "returned"
    /\ th_links[1] = <<LAcme, LBolt>>
    /\ th_links[2] = <<LBoltAbsolute, LAcmeRooted>>
    /\ Len(th_companies[1]) = 1
    /\ Len(th_companies[2]) = 1

(***************************************************************************)
(* Claims about the name of a stub                                         *)
(***************************************************************************)

\* what the six strategies yield for link, in order; the sixth yields ""
\* when the path gives no name longer than one character
StrategyResults(link) ==
    << link.text, link.span, FirstLong(link.nested, 1), Strip(link.title, WhiteCh),
       Strip(link.aria, WhiteCh),
       IF NameFromHref(RawHref(link.href)) = NoneValue THEN <<>>
       ELSE NameFromHref(RawHref(link.href)) >>

\* C21: the name of the emitted record is a string: the result of the first
\* of the six strategies that yields more than one character, and a
\* (possibly empty) string, never an absent value, when none of them does.
C21_NameIsString ==
    nm_pc = "appended" =>
       /\ nm_stub.name # NoneValue
       /\ FirstLong(StrategyResults(nm_link), 1) # <<>> =>
             nm_stub.name = FirstLong(StrategyResults(nm_link), 1)

(***************************************************************************)
(* Claims about the two syntax tests of the cleaner                        *)
(***************************************************************************)

\* C22: step 4 never rejects what step 3 accepted: a candidate whose
\* normalised form matches the strict pattern also passes is_valid_email.
C22_ValidatorLooser ==
    cl_pc = "cleaned" =>
       (StrictMatch(NormalizeEmail(cl_email)) => is_valid_email(NormalizeEmail(cl_email)))

(***************************************************************************)
(* Claims about the two sources of contact pages                           *)
(***************************************************************************)

\* the entries method 1 returned for the homepage fetched
Method1Links == FindContactLinksInPage(ex_home.anchors, website_url)

\* the list the claim describes before deduplication: the entries of method
\* 1, followed by the pattern entries exactly if method 1 returned fewer
\* than MinContactLinks entries
CombinedPages ==
    IF Len(Method1Links) < MinContactLinks
    THEN Method1Links \o GenerateContactUrlsByPattern(website_url)
    ELSE Method1Links

\* the positions of list whose URL occurs at no earlier position
FirstOccurrences(list) ==
    { i \in DOMAIN list : \A j \in 1..(i - 1) : list[j][2] # list[i][2] }

MethodEmails(k) ==
    IF k = 1 THEN ExtractEmailsFromMailtoLinks(pg_out.page.mailto, custom_domains)
    ELSE IF k = 2 THEN ExtractEmailsFromText(pg_out.page.text, custom_domains)
    ELSE IF k = 3 THEN ExtractEmailsFromAreas(pg_out.page.areas, custom_domains)
    ELSE ExtractEmailsWithEnhancedPatterns(pg_out.page.html, custom_domains)

\* C24: on a fetched page processed without exception the text method runs
\* exactly if the mailto method found no valid email, the mailto, area and
\* enhanced methods always run, and the set returned is the union of what
\* the methods that ran found.
C24_TextOnlyWithoutMailto ==
    (pg_pc = "returned" /\ pg_out.kind = "soup") =>
       /\ found_emails = UNION { MethodEmails(k) : k \in pg_ran }
       /\ pg_out.raise_at = 0 =>
             /\ 2 \in pg_ran <=> MethodEmails(1) = {}
             /\ {1, 3, 4} \subseteq pg_ran

\* a page with a valid mailto address and an address in its text: the text
\* method was passed over, the others ran
C24_Witness ==
    /\ pg_pc = "returned"
    /\ pg_out.kind = "soup"
    /\ pg_out.raise_at = 0
    /\ MethodEmails(1) # {}
    /\ MethodEmails(2) # {}
    /\ ~(MethodEmails(2) \subseteq found_emails)
    /\ pg_ran = {1, 3, 4}

(***************************************************************************)
(* Claims about the delay between page fetches                             *)
(***************************************************************************)

\* C25: within one call the extractor fetches a page only after the fixed
\* delay has run since the previous fetch, the homepage fetch of
\* _discover_contact_pages and a page whose processing raised included.
C25_DelayBetweenFetches ==
    [][(ex_i' = ex_i + 1) => ~ex_undelayed]_vars

(***************************************************************************)
(* Claims about the page set                                               *)
(***************************************************************************)

\* C26: the page set is the homepage followed by the discovered contact
\* pages in discovery order, and no URL occurs twice in it, the homepage
\* URL included.
C26_PageSetWithoutRepeats ==
    ex_pc \in {"pages", "done"} =>
       /\ pages_to_check = << <<StrHomepage, website_url>> >> \o contact_pages
       /\ \A i, j \in DOMAIN pages_to_check :
             pages_to_check[i][2] = pages_to_check[j][2] => i = j

(***************************************************************************)
(* Claims about the exported companies with contacts                       *)
(***************************************************************************)

\* C27: after deduplicate_emails every company of the list that is
\* exported, and counted in the file name and the summary, has an email.
C27_ExportedHaveEmail ==
    pl_pc = "finished" =>
       \A k \in DOMAIN exported_emails : pl_companies[exported_emails[k]].emails # <<>>

(***************************************************************************)
(* Claims about seen_urls across traversals                                *)
(***************************************************************************)

\* the profile URLs the links of a directory page fetched at url point to
LinkedOn(page, url) ==
    { urljoin(url, page.links[k].href) :
         k \in { n \in DOMAIN page.links :
                   page.links[n].href # NoHref /\ RawHref(page.links[n].href) # <<>> } }

\* C28: every traversal starts from an empty seen set: whatever earlier
\* traversals on the same parser emitted, once a page is fetched every
\* profile URL it links to is the URL of a stub in the list of this call.
C28_FreshSeenSet ==
    [][(Fetches /\ tr_soup'.kind = "soup") =>
          LinkedOn(tr_soup'.page, current_url) \subseteq Range([k \in DOMAIN companies' |-> companies'[k].url])]_vars

(***************************************************************************)
(* Claims about limit_companies                                            *)
(***************************************************************************)

\* the profile URLs of a list of companies, in order
UrlsOf(list) == [k \in DOMAIN list |-> list[k].url]

\* C29: with limit_companies = n given (n >= 0) the companies resolved and
\* exported are the first n of the deduplicated traversal output, in order
\* (all of them if there are fewer); with no limit given they are all of it.
C29_LimitRespected ==
    [][(pl_pc = "links" /\ pl_pc' = "contacts") =>
          LET unique == DeduplicateCompanies(companies)
              kept == IF limit_companies.given
                      THEN SubSeq(unique, 1, Min(limit_companies.n, Len(unique)))
                      ELSE unique
          IN  /\ UrlsOf(pl_companies') = UrlsOf(kept)
              /\ exported_links' = [i \in DOMAIN kept |-> i]]_vars

(***************************************************************************)
(* Claims about the engine's lock                                          *)
(***************************************************************************)

\* C30: navigation and read of the page source are not interleaved with
\* another thread's navigation: every caller of get_page is given the
\* document of the URL it asked for.
C30_OwnDocument ==
    \A t \in Threads : en_pc[t] = "returned" => en_doc[t] = en_url[t]

====
